---- MODULE Spec2Model ----
(***************************************************************************)
(* A model of github.com/iand/logfmtr: the deferred, copy-on-derive logger *)
(* core (sink / Logger, instantiate, copyCore), the process-wide           *)
(* registries (goptions, gv, disabledLoggers) and the logfmt formatter.    *)
(*                                                                         *)
(* The repository holds two generations of the package.  api = "sink" is   *)
(* the logr v1 LogSink (logfmtr.go, first file of src/unnamed/part_003);   *)
(* api = "Logger" is the pre-v1 *Logger (second file of part_003), whose   *)
(* Core carries the verbosity level and whose V is repository code.        *)
(*                                                                         *)
(* A Go string is a sequence of one-byte strings, so that concatenation,   *)
(* quoting and comparison are computed as the code computes them.          *)
(***************************************************************************)
EXTENDS Integers, Sequences, FiniteSets, TLC

(***************************************************************************)
(* String literals of the program and of its examples.                     *)
(***************************************************************************)
ESC == "ESC"
Empty == << >>
SP == <<" ">>
NL == <<"\n">>
EQ == <<"=">>
DQ == <<"\"">>
BS == <<"\\">>

sEuropa == <<"e","u","r","o","p","a">>
sMoon == <<"m","o","o","n">>
sEuropaMoon == <<"e","u","r","o","p","a",".","m","o","o","n">>
sHello == <<"h","e","l","l","o">>
sUhOh == <<"u","h"," ","o","h">>
sUser == <<"u","s","e","r">>
sYou == <<"y","o","u">>
sVal1 == <<"v","a","l","1">>
sTrouble == <<"t","r","o","u","b","l","e">>
sBoom == <<"b","o","o","m">>
sMyName == <<"M","y","N","a","m","e">>
sTwoLines == <<"a","\n","b">>
sError == <<"e","r","r","o","r">>
sInfo == <<"i","n","f","o">>
sLogger == <<"l","o","g","g","e","r">>
sCaller == <<"c","a","l","l","e","r">>
sTrue == <<"t","r","u","e">>
sFalse == <<"f","a","l","s","e">>
sNilText == <<"<","n","i","l",">">>
sUnknown == <<"u","n","k","n","o","w","n">>
sLevelEq == <<"l","e","v","e","l","=">>
sLoggerEq == <<"l","o","g","g","e","r","=">>
sTsEq == <<"t","s","=">>
sMsgEq == <<"m","s","g","=">>
sCallerEq == <<"c","a","l","l","e","r","=">>
sBar == <<" ","|"," ">>
sDot == <<".">>

colorDefault == <<ESC,"[","0","m">>
colorRed == <<ESC,"[","1",";","3","1","m">>
colorGreen == <<ESC,"[","1",";","3","2","m">>
colorYellow == <<ESC,"[","1",";","3","3","m">>
colorBlue == <<ESC,"[","1",";","3","4","m">>

\* DefaultOptions().TimestampFormat and the fixed layout of the humanized line.
\* A layout is held as one element: only time.Format looks inside it.
layoutDefault == <<"2006-01-02T15:04:05.000000000Z07:00">>
layoutHuman == <<"15:04:05.000000">>

(***************************************************************************)
(* Go values passed as interface{}: the dynamic type decides stringify.    *)
(***************************************************************************)
StrV(s) == [t |-> "string", s |-> s, i |-> 0, b |-> FALSE]
IntV(i) == [t |-> "int", s |-> Empty, i |-> i, b |-> FALSE]
BoolV(b) == [t |-> "bool", s |-> Empty, i |-> 0, b |-> b]
ErrV(s) == [t |-> "error", s |-> s, i |-> 0, b |-> FALSE]
StringerV(s) == [t |-> "stringer", s |-> s, i |-> 0, b |-> FALSE]
NilV == [t |-> "nil", s |-> Empty, i |-> 0, b |-> FALSE]
\* a pointer to the program's own fmt.Stringer, whose String() returns what
\* the object holds when it is called
RefV == [t |-> "ref", s |-> Empty, i |-> 0, b |-> FALSE]

\* the values as a call of stringify finds them: String() of the program's
\* Stringer returns text
RECURSIVE Deref(_, _)
Deref(kvs, text) ==
    IF kvs = << >> THEN << >>
    ELSE <<IF Head(kvs) = RefV THEN StringerV(text) ELSE Head(kvs)>> \o Deref(Tail(kvs), text)

\* strconv.Itoa
Digit(d) == CASE d = 0 -> "0" [] d = 1 -> "1" [] d = 2 -> "2" [] d = 3 -> "3"
              [] d = 4 -> "4" [] d = 5 -> "5" [] d = 6 -> "6" [] d = 7 -> "7"
              [] d = 8 -> "8" [] d = 9 -> "9"

RECURSIVE ItoaNat(_)
ItoaNat(n) == IF n < 10 THEN <<Digit(n)>> ELSE ItoaNat(n \div 10) \o <<Digit(n % 10)>>

Itoa(n) == IF n < 0 THEN <<"-">> \o ItoaNat(0 - n) ELSE ItoaNat(n)

\* fmt.Sprint of a value that is neither a string, a Stringer nor an error
Sprint(v) == CASE v.t = "int" -> Itoa(v.i)
               [] v.t = "bool" -> (IF v.b THEN sTrue ELSE sFalse)
               [] v.t = "nil" -> sNilText
               [] OTHER -> v.s

\* strings.ContainsAny(s, " ")
ContainsSpace(s) == \E i \in 1..Len(s) : s[i] = " "

\* fmt.Sprintf("%q", s): a double-quoted Go string literal
EscapeChar(c) == CASE c = "\"" -> <<"\\", "\"">>
                   [] c = "\\" -> <<"\\", "\\">>
                   [] c = "\n" -> <<"\\", "n">>
                   [] c = ESC -> <<"\\", "x", "1", "b">>
                   [] OTHER -> <<c>>

RECURSIVE Escape(_)
Escape(s) == IF s = Empty THEN Empty ELSE EscapeChar(Head(s)) \o Escape(Tail(s))

quote(s) == IF ContainsSpace(s) THEN DQ \o Escape(s) \o DQ ELSE s

stringify(v) ==
    quote(CASE v.t = "string" -> v.s
            [] v.t = "stringer" -> v.s
            [] v.t = "error" -> v.s
            [] OTHER -> Sprint(v))

(***************************************************************************)
(* Options and core.  A *core is a record whose field alloc tells a        *)
(* pointer to a core (TRUE) from the nil pointer (FALSE).  callDepth is    *)
(* runtimeInfo.CallDepth (sink), level is the V level (pre-v1 Logger).     *)
(***************************************************************************)
NilWriter == "nil"
\* an io.Writer whose Write returns an error
BrokenWriter == "broken"

MkOptions(w, humanize, colorize, ts, delim, addCaller, callerSkip) ==
    [Writer |-> w, Humanize |-> humanize, Colorize |-> colorize,
     TimestampFormat |-> ts, NameDelim |-> delim, AddCaller |-> addCaller,
     CallerSkip |-> callerSkip]

DefaultOptions == MkOptions("stdout", FALSE, FALSE, layoutDefault, sDot, FALSE, 0)

ZeroCore(callDepth) ==
    [alloc |-> TRUE, w |-> NilWriter, name |-> Empty, values |-> Empty,
     humanize |-> FALSE, tsFormat |-> Empty, nameDelim |-> Empty,
     colorize |-> FALSE, addCaller |-> FALSE, callerSkip |-> 0,
     callDepth |-> callDepth, level |-> 0]

NilCore == [ZeroCore(0) EXCEPT !.alloc = FALSE]

\* an applyOptions that takes Colorize as it is given
applyOptionsColorizeAsGiven(c, opts) ==
    [c EXCEPT !.w = opts.Writer,
              !.humanize = opts.Humanize,
              !.tsFormat = opts.TimestampFormat,
              !.nameDelim = opts.NameDelim,
              !.colorize = opts.Colorize,
              !.addCaller = opts.AddCaller,
              !.callerSkip = opts.CallerSkip]

\* core.applyOptions after its nil-Writer check (the check is in the callers'
\* steps, which panic): the seven assignments
applyOptions(c, opts) ==
    [c EXCEPT !.w = opts.Writer,
              !.humanize = opts.Humanize,
              !.tsFormat = opts.TimestampFormat,
              !.nameDelim = opts.NameDelim,
              !.colorize = opts.Colorize /\ opts.Humanize,
              !.addCaller = opts.AddCaller,
              !.callerSkip = opts.CallerSkip]

\* the guard of core.applyOptions: TRUE when it panics
applyOptionsPanics(opts) == opts.Writer = NilWriter

key(c, s) ==
    IF ~c.colorize THEN s
    ELSE IF s = sError THEN colorRed \o s \o colorDefault
    ELSE IF s = sLogger \/ s = sCaller THEN colorBlue \o s \o colorDefault
    ELSE colorYellow \o s \o colorDefault

\* a flatten that stops at a key without a value
RECURSIVE flattenPairsOnly(_, _, _)
flattenPairsOnly(c, kvs, i) ==
    IF i + 1 > Len(kvs) THEN Empty
    ELSE (IF i > 1 THEN SP ELSE Empty)
         \o key(c, stringify(kvs[i])) \o EQ \o stringify(kvs[i + 1])
         \o flattenPairsOnly(c, kvs, i + 2)

RECURSIVE flattenFrom(_, _, _)
flattenFrom(c, kvs, i) ==
    IF i > Len(kvs) THEN Empty
    ELSE (IF i > 1 THEN SP ELSE Empty)
         \o key(c, stringify(kvs[i])) \o EQ
         \o stringify(IF i + 1 <= Len(kvs) THEN kvs[i + 1] ELSE StrV(Empty))
         \o flattenFrom(c, kvs, i + 2)

flatten(c, kvs) == IF Len(kvs) = 0 THEN Empty ELSE flattenFrom(c, kvs, 1)

appendName(c, name) ==
    IF name = Empty THEN c
    ELSE IF c.name # Empty THEN [c EXCEPT !.name = c.name \o c.nameDelim \o name]
    ELSE [c EXCEPT !.name = name]

appendValues(c, values) ==
    IF values = Empty THEN c
    ELSE IF Len(c.values) > 0 THEN [c EXCEPT !.values = c.values \o SP \o values]
    ELSE [c EXCEPT !.values = values]

(***************************************************************************)
(* The clock and the call stack, as the formatter sees them.               *)
(***************************************************************************)
nowDefault == <<"2","0","2","0","-","0","9","-","2","0","T","1","4",":","3","1",":","1","0",".","9","0","5","2","6","7","8","3","9","Z">>
nowHuman == <<"1","4",":","3","1",":","1","0",".","9","0","5","2","9","7">>

\* time.Now().UTC().Format(layout): a layout without reference-time elements
\* formats to itself
FormatNow(layout) ==
    CASE layout = layoutDefault -> nowDefault
      [] layout = layoutHuman -> nowHuman
      [] OTHER -> layout

\* runtime.Caller(n) seen from core.caller: frame 0 is core.caller itself
fWrite == <<"l","o","g","f","m","t","r",".","g","o",":","2","6","6">>
fSink == <<"l","o","g","f","m","t","r",".","g","o",":","1","7","1">>
fLogr == <<"l","o","g","r",".","g","o",":","2","4","9">>
fUser == <<"e","x","a","m","p","l","e",".","g","o",":","2","8">>
fMain == <<"e","x","a","m","p","l","e",".","g","o",":","1","3">>
fProc == <<"p","r","o","c",".","g","o",":","2","2","5">>

CallStack(a) ==
    IF a = "sink" THEN <<fWrite, fSink, fLogr, fUser, fMain, fProc>>
    ELSE <<fWrite, fSink, fUser, fMain, fProc>>

RECURSIVE callerFrom(_, _, _, _)
callerFrom(a, c, skip, i) ==
    IF i >= 3 THEN sUnknown
    ELSE LET n == (IF a = "sink" THEN c.callDepth ELSE 0) + skip + c.callerSkip + i
         IN IF n >= 1 /\ n <= Len(CallStack(a)) THEN CallStack(a)[n]
            ELSE callerFrom(a, c, skip, i + 1)

caller(a, c, skip) == callerFrom(a, c, skip, 1)

(***************************************************************************)
(* core.write: the bytes handed to c.w.Write.                              *)
(***************************************************************************)
PadRight(s, n) == s \o [i \in 1..(IF Len(s) < n THEN n - Len(s) ELSE 0) |-> " "]
PadLeft(s, n) == [i \in 1..(IF Len(s) < n THEN n - Len(s) ELSE 0) |-> " "] \o s

humanPrefix(c, humanprefix) ==
    IF ~c.colorize THEN humanprefix
    ELSE IF humanprefix = sError THEN colorRed \o humanprefix \o colorDefault
    ELSE colorGreen \o humanprefix \o SP \o colorDefault

writeTail(c, values, extras) ==
    (IF Len(extras) > 0 THEN SP \o flatten(c, extras) ELSE Empty)
    \o (IF c.values # Empty THEN SP \o c.values ELSE Empty)
    \o (IF values # Empty THEN SP \o values ELSE Empty)
    \o NL

\* a machine layout with msg before ts
writeMsgBeforeTs(c, level, humanprefix, msg, values, extras) ==
    sLevelEq \o Itoa(level)
    \o (IF c.name # Empty THEN SP \o sLoggerEq \o quote(c.name) ELSE Empty)
    \o SP \o sMsgEq \o quote(msg)
    \o (IF c.tsFormat # Empty THEN SP \o sTsEq \o quote(FormatNow(c.tsFormat)) ELSE Empty)
    \o (IF c.addCaller THEN SP \o sCallerEq \o caller("sink", c, 1) ELSE Empty)
    \o writeTail(c, values, extras)

\* logfmtr.go (sink): ts before msg, caller(1)
write(c, level, humanprefix, msg, values, extras) ==
    (IF c.humanize
     THEN Itoa(level) \o SP \o PadRight(humanPrefix(c, humanprefix), 5) \o sBar
          \o PadLeft(FormatNow(layoutHuman), 15) \o sBar \o PadRight(msg, 30)
          \o (IF c.name # Empty THEN SP \o key(c, sLogger) \o EQ \o c.name ELSE Empty)
          \o (IF c.addCaller THEN SP \o key(c, sCaller) \o EQ \o caller("sink", c, 1) ELSE Empty)
     ELSE sLevelEq \o Itoa(level)
          \o (IF c.name # Empty THEN SP \o sLoggerEq \o quote(c.name) ELSE Empty)
          \o (IF c.tsFormat # Empty THEN SP \o sTsEq \o quote(FormatNow(c.tsFormat)) ELSE Empty)
          \o SP \o sMsgEq \o quote(msg)
          \o (IF c.addCaller THEN SP \o sCallerEq \o caller("sink", c, 1) ELSE Empty))
    \o writeTail(c, values, extras)

\* pre-v1 Logger: the level of the core, msg before ts, caller(2)
writeLegacy(c, humanprefix, msg, values, extras) ==
    (IF c.humanize
     THEN Itoa(c.level) \o SP \o PadRight(humanPrefix(c, humanprefix), 5) \o sBar
          \o PadLeft(FormatNow(layoutHuman), 15) \o sBar \o PadRight(msg, 30)
          \o (IF c.name # Empty THEN SP \o key(c, sLogger) \o EQ \o c.name ELSE Empty)
          \o (IF c.addCaller THEN SP \o key(c, sCaller) \o EQ \o caller("Logger", c, 2) ELSE Empty)
     ELSE sLevelEq \o Itoa(c.level)
          \o (IF c.name # Empty THEN SP \o sLoggerEq \o quote(c.name) ELSE Empty)
          \o SP \o sMsgEq \o quote(msg)
          \o (IF c.tsFormat # Empty THEN SP \o sTsEq \o quote(FormatNow(c.tsFormat)) ELSE Empty)
          \o (IF c.addCaller THEN SP \o sCallerEq \o caller("Logger", c, 2) ELSE Empty))
    \o writeTail(c, values, extras)

(***************************************************************************)
(* State.                                                                  *)
(***************************************************************************)
VARIABLES
    api,                \* "sink" or "Logger": the generation the program links
    sinks,              \* the allocated sink / Logger objects, in allocation order
    goptions,           \* var goptions
    goptionsmu,         \* var goptionsmu: TRUE when locked
    gv,                 \* var gv
    disabledLoggers,    \* the map stored in disabledLoggers (its keys; every value is true)
    anyDisabled,        \* var anyDisabled
    disabledLoggersMu,  \* var disabledLoggersMu: TRUE when locked
    stringer,           \* what String() of the program's own Stringer returns now
    thr,                \* per goroutine: the call it is in and its position
    ev                  \* the call that returned in the last step, with what it returned

vars == <<api, sinks, goptions, goptionsmu, gv, disabledLoggers, anyDisabled,
          disabledLoggersMu, stringer, thr, ev>>

\* bounds of the model
MaxSinks == 3

Goroutines == {1, 2}
MainOnly == {1}

\* the inputs the operations are called with
Humanized == [DefaultOptions EXCEPT !.Humanize = TRUE, !.Colorize = TRUE]
NoWriter == [DefaultOptions EXCEPT !.Writer = NilWriter]
OptionsIn == {DefaultOptions, Humanized, NoWriter}
NamesIn == {sEuropa, sMoon}
DisableIn == {sEuropa, sEuropaMoon, Empty}
LevelsIn == {-1, 0, 2}
VerbosityIn == {-1, 1}
DeltasIn == {-1, 2}
InfoKvs == <<StrV(sVal1), IntV(1)>>
ErrIn == {NilV, ErrV(sBoom)}
ErrorKvs == <<StrV(sTrouble), BoolV(TRUE)>>
ValuesKvs == <<StrV(sUser), StrV(sYou)>>
RefKvs == <<StrV(sUser), RefV>>
OddKvs == <<StrV(sVal1), IntV(1), StrV(sTrouble)>>
KvsIn == {<< >>, InfoKvs, OddKvs}
MsgsIn == {sHello, sUhOh, sTwoLines}
Terse == [DefaultOptions EXCEPT !.TimestampFormat = Empty, !.AddCaller = TRUE]
Broken == [Terse EXCEPT !.Writer = BrokenWriter]

\* a derivation closure (dfn): nil, or what it captured
NilDfn == [k |-> "nil", name |-> Empty, kvs |-> << >>, d |-> 0]
NameDfn(name) == [k |-> "name", name |-> name, kvs |-> << >>, d |-> 0]
ValuesDfn(kvs) == [k |-> "values", name |-> Empty, kvs |-> kvs, d |-> 0]
DepthDfn(d) == [k |-> "depth", name |-> Empty, kvs |-> << >>, d |-> d]
LevelDfn(d) == [k |-> "V", name |-> Empty, kvs |-> << >>, d |-> d]

\* dfn(c) for the closures of sink.WithName, WithValues, WithCallDepth
sinkDfn(c, dfn) ==
    CASE dfn.k = "name" -> appendName(c, dfn.name)
      [] dfn.k = "values" -> appendValues(c, flatten(c, dfn.kvs))
      [] dfn.k = "depth" -> [c EXCEPT !.callerSkip = c.callerSkip + dfn.d]
      [] OTHER -> c

\* a V whose closure stores its level instead of adding it
loggerDfnSetsLevel(c, dfn) ==
    CASE dfn.k = "name" ->
            (IF c.name # Empty THEN [c EXCEPT !.name = c.name \o c.nameDelim \o dfn.name]
             ELSE [c EXCEPT !.name = dfn.name])
      [] dfn.k = "values" ->
            (IF Len(c.values) > 0
             THEN [c EXCEPT !.values = c.values \o SP \o flatten(c, dfn.kvs)]
             ELSE [c EXCEPT !.values = flatten(c, dfn.kvs)])
      [] dfn.k = "V" -> [c EXCEPT !.level = dfn.d]
      [] OTHER -> c

\* dfn(c) for the closures of NewNamed and Logger.V, WithName, WithValues
loggerDfn(c, dfn) ==
    CASE dfn.k = "name" ->
            (IF c.name # Empty THEN [c EXCEPT !.name = c.name \o c.nameDelim \o dfn.name]
             ELSE [c EXCEPT !.name = dfn.name])
      [] dfn.k = "values" ->
            (IF Len(c.values) > 0
             THEN [c EXCEPT !.values = c.values \o SP \o flatten(c, dfn.kvs)]
             ELSE [c EXCEPT !.values = flatten(c, dfn.kvs)])
      [] dfn.k = "V" -> [c EXCEPT !.level = c.level + dfn.d]
      [] OTHER -> c

applyDfn(a, c, dfn) == IF a = "sink" THEN sinkDfn(c, dfn) ELSE loggerDfn(c, dfn)

\* a sink / Logger object.  held: the program holds a reference to it.
\* born, ninst, applied, at observe: the registry default when a deferred root
\* was made, how often the object's instantiate ran, the options its
\* instantiate applied (at most the first two), and what the program's Stringer
\* returned when the object was made.
MkSink(parent, dfn, core, callDepth, held, ctor, born) ==
    [parent |-> parent, dfn |-> dfn, core |-> core, done |-> FALSE, mu |-> FALSE,
     callDepth |-> callDepth, held |-> held, ctor |-> ctor, born |-> born,
     ninst |-> 0, applied |-> << >>, at |-> Empty]

\* the root of the chain of parents of object h
RECURSIVE rootOf(_, _)
rootOf(ss, h) == IF ss[h].parent = 0 THEN h ELSE rootOf(ss, ss[h].parent)

\* an int argument is v + hi * 2^32 with v in the range of int32: v is what
\* int32(...) keeps of it, and hi = 0 for the arguments that are an int32
NoCall == [op |-> "none", h |-> 0, level |-> 0, msg |-> Empty, kvs |-> << >>,
           err |-> NilV, name |-> Empty, opts |-> DefaultOptions, v |-> 0, hi |-> 0]

\* first, fresh: the call began on a handle whose sync.Once had not run, whose
\* root's sync.Once had not run; was: the disabled names when the call began
\* (for an update: the map it copied); seen: every map that was the published
\* one at some moment of a log call, and the map an update in progress at its
\* beginning had copied
IdleThread == [pc |-> "idle", c |-> NoCall, stack |-> << >>, phase |-> 0,
               writes |-> << >>, next |-> {}, first |-> FALSE, fresh |-> FALSE,
               was |-> {}, seen |-> {}]

NoEv == [t |-> 0, c |-> NoCall, res |-> "none", old |-> 0, writes |-> << >>, new |-> 0,
         first |-> FALSE, fresh |-> FALSE, was |-> {}, seen |-> {}]

Init ==
    /\ api \in {"sink", "Logger"}
    /\ sinks = << >>
    /\ goptions = DefaultOptions
    /\ goptionsmu = FALSE
    /\ gv = 0
    /\ disabledLoggers = {}
    /\ anyDisabled = 0
    /\ disabledLoggersMu = FALSE
    /\ stringer = sYou
    /\ thr = [t \in Goroutines |-> IdleThread]
    /\ ev = NoEv

\* the state as one value, so that a step is a function of it
State ==
    [sinks |-> sinks, goptions |-> goptions, goptionsmu |-> goptionsmu, gv |-> gv,
     disabledLoggers |-> disabledLoggers, anyDisabled |-> anyDisabled,
     disabledLoggersMu |-> disabledLoggersMu, stringer |-> stringer, thr |-> thr,
     ev |-> ev]

Becomes(s) ==
    /\ sinks' = s.sinks
    /\ goptions' = s.goptions
    /\ goptionsmu' = s.goptionsmu
    /\ gv' = s.gv
    /\ disabledLoggers' = s.disabledLoggers
    /\ anyDisabled' = s.anyDisabled
    /\ disabledLoggersMu' = s.disabledLoggersMu
    /\ stringer' = s.stringer
    /\ thr' = s.thr
    /\ ev' = s.ev
    /\ api' = api

(***************************************************************************)
(* The steps of a call.  Each is a function of the state s and the         *)
(* goroutine t; x is the handle whose sync.Once the goroutine is in.       *)
(***************************************************************************)
Top(s, t) == s.thr[t].stack[Len(s.thr[t].stack)]

Goto(s, t, pc) == [s EXCEPT !.thr[t].pc = pc, !.ev = NoEv]

\* the call returns res: the goroutine is idle again and ev tells what happened
Return(s, t, res, old) ==
    [s EXCEPT !.thr[t] = IdleThread,
              !.ev = [t |-> t, c |-> s.thr[t].c, res |-> res, old |-> old,
                      writes |-> s.thr[t].writes, new |-> 0, first |-> s.thr[t].first,
                      fresh |-> s.thr[t].fresh, was |-> s.thr[t].was,
                      seen |-> s.thr[t].seen]]

\* a panic unwinds the goroutine's frames: every sync.Once it is in runs its
\* deferred done.Store(1) and m.Unlock(); nothing unlocks goptionsmu
Panic(s, t) ==
    LET inside == {s.thr[t].stack[i] : i \in 1..Len(s.thr[t].stack)}
        unwound == [s EXCEPT !.sinks = [x \in DOMAIN s.sinks |->
                        IF x \in inside
                        THEN [s.sinks[x] EXCEPT !.done = TRUE, !.mu = FALSE]
                        ELSE s.sinks[x]]]
    IN Return(unwound, t, "panic", 0)

\* where the call goes on once l.init.Do(l.instantiate) has returned
Body(s, t) ==
    LET c == s.thr[t].c
    IN IF api = "sink"
       THEN (IF c.op = "Error" \/ (c.op = "Info" /\ s.thr[t].phase = 2)
             THEN "write" ELSE "enabledLevel")
       ELSE "loggerEnabled"

\* sync.Once.Do returned for the handle on top of the stack
AfterDo(s, t) ==
    LET rest == SubSeq(s.thr[t].stack, 1, Len(s.thr[t].stack) - 1)
        popped == [s EXCEPT !.thr[t].stack = rest, !.ev = NoEv]
    IN IF rest = << >>
       THEN [popped EXCEPT !.thr[t].pc = Body(s, t)]
       ELSE [popped EXCEPT !.thr[t].pc = "copyCore"]

\* a Do that runs its function at every call
OnceDoEveryTime(s, t) ==
    [s EXCEPT !.sinks[Top(s, t)].mu = TRUE, !.thr[t].pc = "instantiate", !.ev = NoEv]

\* sync.Once.Do: the fast path reads done
OnceDo(s, t) ==
    IF s.sinks[Top(s, t)].done THEN AfterDo(s, t) ELSE Goto(s, t, "doSlow")

\* a doSlow that does not read done again under the lock
OnceDoSlowNoRecheck(s, t) ==
    [s EXCEPT !.sinks[Top(s, t)].mu = TRUE, !.thr[t].pc = "instantiate", !.ev = NoEv]

\* sync.Once.doSlow: m.Lock(), then done is read again
OnceDoSlow(s, t) ==
    LET x == Top(s, t)
    IN IF s.sinks[x].done THEN AfterDo(s, t)
       ELSE [s EXCEPT !.sinks[x].mu = TRUE, !.thr[t].pc = "instantiate", !.ev = NoEv]

\* the closure of object x as it runs now: its kvs are stringified now
Closure(s, x) == [s.sinks[x].dfn EXCEPT !.kvs = Deref(@, s.stringer)]

\* instantiate: the cached core, the root branch or the parent's copyCore
instantiate(s, t) ==
    LET x == Top(s, t)
        ran == [s EXCEPT !.sinks[x].ninst = IF @ < 2 THEN @ + 1 ELSE @, !.ev = NoEv]
    IN IF s.sinks[x].core.alloc THEN [ran EXCEPT !.thr[t].pc = "onceDone"]
       ELSE IF s.sinks[x].parent = 0 THEN [ran EXCEPT !.thr[t].pc = "rootLock"]
       ELSE [ran EXCEPT !.thr[t].stack = Append(@, s.sinks[x].parent),
                        !.thr[t].pc = "onceDo"]

\* root: goptionsmu.Lock(); l.core = &core{runtimeInfo: l.runtimeInfo}
instantiateLock(s, t) ==
    LET x == Top(s, t)
    IN [s EXCEPT !.goptionsmu = TRUE,
                 !.sinks[x].core = ZeroCore(IF api = "sink" THEN s.sinks[x].callDepth ELSE 0),
                 !.thr[t].pc = "rootApply", !.ev = NoEv]

\* a root that applies the options of the moment it was made
instantiateApplyBorn(s, t) ==
    LET x == Top(s, t)
        opts == s.sinks[x].born[1]
    IN [s EXCEPT !.sinks[x].applied = IF Len(@) < 2 THEN Append(@, opts) ELSE @,
                 !.sinks[x].core = applyDfn(api, applyOptions(@, opts), s.sinks[x].dfn),
                 !.goptionsmu = FALSE,
                 !.thr[t].pc = "onceDone", !.ev = NoEv]

\* root: l.core.applyOptions(goptions); goptionsmu.Unlock(); l.dfn(l.core)
instantiateApply(s, t) ==
    LET x == Top(s, t)
        counted == [s EXCEPT !.sinks[x].applied =
                                IF Len(@) < 2 THEN Append(@, s.goptions) ELSE @]
    IN IF applyOptionsPanics(s.goptions) THEN Panic(counted, t)
       ELSE [counted EXCEPT
                !.sinks[x].core = applyDfn(api, applyOptions(@, s.goptions), Closure(s, x)),
                !.goptionsmu = FALSE,
                !.thr[t].pc = "onceDone", !.ev = NoEv]

\* a copyCore that runs dfn on the parent's core and returns that pointer
copyCoreInPlace(s, t) ==
    LET y == Top(s, t)
        p == s.sinks[y].parent
        c == applyDfn(api, s.sinks[p].core, s.sinks[y].dfn)
    IN [s EXCEPT !.sinks[y].core = c, !.sinks[p].core = c,
                 !.thr[t].pc = "onceDone", !.ev = NoEv]

\* a copyCore that applies the registry default to the copy
copyCoreReappliesOptions(s, t) ==
    LET y == Top(s, t)
        p == s.sinks[y].parent
    IN [s EXCEPT !.sinks[y].core =
                    applyDfn(api, applyOptions(s.sinks[p].core, s.goptions), s.sinks[y].dfn),
                 !.thr[t].pc = "onceDone", !.ev = NoEv]

\* copyCore after l.init.Do: c := *l.core; dfn(&c); and the child's l.core = &c
copyCore(s, t) ==
    LET y == Top(s, t)
        p == s.sinks[y].parent
    IN IF ~s.sinks[p].core.alloc THEN Panic(s, t)
       ELSE [s EXCEPT !.sinks[y].core = applyDfn(api, s.sinks[p].core, Closure(s, y)),
                      !.thr[t].pc = "onceDone", !.ev = NoEv]

\* a sync.Once whose doSlow returns with its mutex locked
OnceDoneKeepsLock(s, t) ==
    LET x == Top(s, t)
    IN AfterDo([s EXCEPT !.sinks[x].done = TRUE], t)

\* sync.Once.doSlow returns: the deferred done.Store(1) and m.Unlock()
OnceDone(s, t) ==
    LET x == Top(s, t)
    IN AfterDo([s EXCEPT !.sinks[x].done = TRUE, !.sinks[x].mu = FALSE], t)

\* an Info and an Error that do not test Enabled
AnswerUntested(s, t, b) ==
    LET c == s.thr[t].c
    IN IF c.op = "Enabled" THEN Return(s, t, IF b THEN "true" ELSE "false", 0)
       ELSE IF api = "sink"
       THEN [s EXCEPT !.thr[t].phase = 2, !.thr[t].stack = <<c.h>>,
                      !.thr[t].pc = "onceDo", !.ev = NoEv]
       ELSE Goto(s, t, "write")

\* Enabled has its answer b: it is the result of Enabled, or the test of the
\* front end's Info (logr.Logger.Info calls the sink only when Enabled) and of
\* Logger.Info / Logger.Error
Answer(s, t, b) ==
    LET c == s.thr[t].c
    IN IF c.op = "Enabled" THEN Return(s, t, IF b THEN "true" ELSE "false", 0)
       ELSE IF ~b THEN Return(s, t, "ok", 0)
       ELSE IF api = "sink"
       THEN [s EXCEPT !.thr[t].phase = 2, !.thr[t].stack = <<c.h>>,
                      !.thr[t].pc = "onceDo", !.ev = NoEv]
       ELSE Goto(s, t, "write")

\* sink.Enabled: level > int(atomic.LoadInt32(&gv))
EnabledLevel(s, t) ==
    IF s.thr[t].c.level > s.gv THEN Answer(s, t, FALSE) ELSE Goto(s, t, "enabledName")

\* an Enabled that looks the empty name up as well
EnabledNameLooksUpEmpty(s, t) ==
    LET c == s.sinks[s.thr[t].c.h].core
    IN IF ~c.alloc THEN Panic(s, t)
       ELSE IF s.anyDisabled = 0 THEN Answer(s, t, TRUE)
       ELSE Goto(s, t, "enabledLookup")

\* sink.Enabled: l.core.name == "" || atomic.LoadInt32(&anyDisabled) == 0
EnabledName(s, t) ==
    LET c == s.sinks[s.thr[t].c.h].core
    IN IF ~c.alloc THEN Panic(s, t)
       ELSE IF c.name = Empty \/ s.anyDisabled = 0 THEN Answer(s, t, TRUE)
       ELSE Goto(s, t, "enabledLookup")

\* a lookup that takes a disabled name for every name it begins
EnabledLookupByPrefix(s, t) ==
    LET name == s.sinks[s.thr[t].c.h].core.name
    IN Answer(s, t, ~\E d \in s.disabledLoggers :
                        Len(d) <= Len(name) /\ SubSeq(name, 1, Len(d)) = d)

\* sink.Enabled: !disabledLoggers.Load()[l.core.name]
EnabledLookup(s, t) ==
    Answer(s, t, s.sinks[s.thr[t].c.h].core.name \notin s.disabledLoggers)

\* Logger.Enabled: l.core.level <= int(atomic.LoadInt32(&gv))
LoggerEnabled(s, t) ==
    LET c == s.sinks[s.thr[t].c.h].core
    IN IF ~c.alloc THEN Panic(s, t) ELSE Answer(s, t, c.level <= s.gv)

\* the line of sink.Info / sink.Error / Logger.Info / Logger.Error
Line(c, call) ==
    LET extras == IF call.op = "Error" THEN <<StrV(sError), call.err>> ELSE << >>
        prefix == IF call.op = "Error" THEN sError ELSE sInfo
        level == IF call.op = "Error" THEN 0 ELSE call.level
    IN IF api = "sink"
       THEN write(c, level, prefix, call.msg, flatten(c, call.kvs), extras)
       ELSE writeLegacy(c, prefix, call.msg, flatten(c, call.kvs), extras)

\* a write that panics with the error of c.w.Write
WritePanicsOnError(s, t) ==
    LET call == s.thr[t].c
        c == s.sinks[call.h].core
        wrote == [s EXCEPT !.thr[t].writes = Append(@, [w |-> c.w, h |-> call.h,
                                                         bytes |-> Line(c, call),
                                                         failed |-> c.w = BrokenWriter])]
    IN IF ~c.alloc \/ c.w = NilWriter THEN Panic(s, t)
       ELSE IF c.w = BrokenWriter THEN Panic(wrote, t)
       ELSE Return(wrote, t, "ok", 0)

\* l.core.write(...): one _, _ = c.w.Write(b.Bytes()), whose error (failed) is
\* dropped; a nil l.core or a nil c.w is a nil dereference
Write(s, t) ==
    LET call == s.thr[t].c
        c == s.sinks[call.h].core
    IN IF ~c.alloc \/ c.w = NilWriter THEN Panic(s, t)
       ELSE Return([s EXCEPT !.thr[t].writes = Append(@, [w |-> c.w, h |-> call.h,
                                                           bytes |-> Line(c, call),
                                                           failed |-> c.w = BrokenWriter])],
                   t, "ok", 0)

\* UseOptions: goptionsmu.Lock()
UseOptionsLock(s, t) == [s EXCEPT !.goptionsmu = TRUE, !.thr[t].pc = "useOptionsStore", !.ev = NoEv]

\* a UseOptions whose options the materialized roots share
UseOptionsStoreShared(s, t) ==
    Return([s EXCEPT !.goptions = s.thr[t].c.opts, !.goptionsmu = FALSE,
                     !.sinks = [x \in DOMAIN s.sinks |->
                                  IF s.sinks[x].parent = 0 /\ s.sinks[x].done
                                  THEN [s.sinks[x] EXCEPT !.core = applyOptions(@, s.thr[t].c.opts)]
                                  ELSE s.sinks[x]]],
           t, "ok", 0)

\* UseOptions: goptions = opts; goptionsmu.Unlock()
UseOptionsStore(s, t) ==
    Return([s EXCEPT !.goptions = s.thr[t].c.opts, !.goptionsmu = FALSE], t, "ok", 0)

\* disabledLoggers.Store(next) by goroutine t: the map it copied is kept in
\* was, and the log calls in progress have one more published map to see
Publish(s, t, next) ==
    [s EXCEPT !.disabledLoggers = next,
              !.thr = [u \in DOMAIN s.thr |->
                         IF u = t
                         THEN [s.thr[u] EXCEPT !.next = next, !.was = s.disabledLoggers,
                                               !.pc = "storeAnyDisabled"]
                         ELSE IF s.thr[u].c.op \in {"Enabled", "Info", "Error"}
                         THEN [s.thr[u] EXCEPT !.seen = @ \cup {next}]
                         ELSE s.thr[u]],
              !.ev = NoEv]

\* an update whose copy keeps the name of the call
setLoggerDisabledStatusKeepsName(s, t) ==
    LET c == s.thr[t].c
        next == s.disabledLoggers \cup (IF c.op = "DisableLogger" THEN {c.name} ELSE {})
    IN Publish([s EXCEPT !.disabledLoggersMu = TRUE], t, next)

\* an EnableLogger that starts from an empty map
setLoggerDisabledStatusFromEmpty(s, t) ==
    LET c == s.thr[t].c
        next == IF c.op = "DisableLogger" THEN s.disabledLoggers \cup {c.name} ELSE {}
    IN Publish([s EXCEPT !.disabledLoggersMu = TRUE], t, next)

\* setLoggerDisabledStatus: Lock, copy the current map without name, add name
\* when disabling, disabledLoggers.Store(next)
setLoggerDisabledStatus(s, t) ==
    LET c == s.thr[t].c
        next == (s.disabledLoggers \ {c.name})
                    \cup (IF c.op = "DisableLogger" THEN {c.name} ELSE {})
    IN Publish([s EXCEPT !.disabledLoggersMu = TRUE], t, next)

\* a flag that tells whether the call disabled, not whether the map is empty
storeAnyDisabledByOp(s, t) ==
    Return([s EXCEPT !.anyDisabled = IF s.thr[t].c.op = "DisableLogger" THEN 1 ELSE 0,
                     !.disabledLoggersMu = FALSE], t, "ok", 0)

\* setLoggerDisabledStatus: the store of anyDisabled and the deferred Unlock
storeAnyDisabled(s, t) ==
    Return([s EXCEPT !.anyDisabled = IF s.thr[t].next = {} THEN 0 ELSE 1,
                     !.disabledLoggersMu = FALSE], t, "ok", 0)

\* an Enabled that looks the name up under the lock of the updates
CanStepLookupLocks(s, t) ==
    LET pc == s.thr[t].pc
    IN /\ pc # "idle"
       /\ pc = "doSlow" => ~s.sinks[Top(s, t)].mu
       /\ pc \in {"rootLock", "useOptionsLock"} => ~s.goptionsmu
       /\ pc \in {"setLoggerDisabledStatus", "enabledLookup"} => ~s.disabledLoggersMu

\* whether goroutine t can take its next step: a Lock waits while locked
CanStep(s, t) ==
    LET pc == s.thr[t].pc
    IN /\ pc # "idle"
       /\ pc = "doSlow" => ~s.sinks[Top(s, t)].mu
       /\ pc \in {"rootLock", "useOptionsLock"} => ~s.goptionsmu
       /\ pc = "setLoggerDisabledStatus" => ~s.disabledLoggersMu

Step(s, t) ==
    LET pc == s.thr[t].pc
    IN CASE pc = "onceDo" -> OnceDo(s, t)
         [] pc = "doSlow" -> OnceDoSlow(s, t)
         [] pc = "instantiate" -> instantiate(s, t)
         [] pc = "rootLock" -> instantiateLock(s, t)
         [] pc = "rootApply" -> instantiateApply(s, t)
         [] pc = "copyCore" -> copyCore(s, t)
         [] pc = "onceDone" -> OnceDone(s, t)
         [] pc = "enabledLevel" -> EnabledLevel(s, t)
         [] pc = "enabledName" -> EnabledName(s, t)
         [] pc = "enabledLookup" -> EnabledLookup(s, t)
         [] pc = "loggerEnabled" -> LoggerEnabled(s, t)
         [] pc = "write" -> Write(s, t)
         [] pc = "useOptionsLock" -> UseOptionsLock(s, t)
         [] pc = "useOptionsStore" -> UseOptionsStore(s, t)
         [] pc = "setLoggerDisabledStatus" -> setLoggerDisabledStatus(s, t)
         [] pc = "storeAnyDisabled" -> storeAnyDisabled(s, t)

\* the whole call: the goroutine's steps until it returns, or waits for ever
RECURSIVE Run(_, _)
Run(s, t) == IF CanStep(s, t) THEN Run(Step(s, t), t) ELSE s

(***************************************************************************)
(* The operations.  A call is a record; Begin starts it on goroutine t.    *)
(***************************************************************************)
Call(op, h) == [NoCall EXCEPT !.op = op, !.h = h]

\* a call that allocates returns at once: the new object is the last of sinks
Returned(s, t, c, res, new) ==
    [s EXCEPT !.ev = [t |-> t, c |-> c, res |-> res, old |-> 0, writes |-> << >>,
                      new |-> new, first |-> FALSE, fresh |-> FALSE, was |-> {},
                      seen |-> {}]]

Alloc(s, obj) == [s EXCEPT !.sinks = Append(@, [obj EXCEPT !.at = s.stringer])]

\* the program changes what its Stringer holds
Mutate(s, t, c) == Returned([s EXCEPT !.stringer = c.name], t, c, "ok", 0)

\* New: logr.New(&sink{}) calls sink.Init with logr's CallDepth 1; the pre-v1
\* New is &Logger{}
New(s, t, c) ==
    Returned(Alloc(s, MkSink(0, NilDfn, NilCore, IF api = "sink" THEN 1 ELSE 0, TRUE, "New", <<s.goptions>>)),
             t, c, "ok", Len(s.sinks) + 1)

\* NewNamed: New().WithName(name), two objects; the pre-v1 NewNamed is one
\* root Logger with the name closure
NewNamed(s, t, c) ==
    IF api = "sink"
    THEN Returned(Alloc(Alloc(s, MkSink(0, NilDfn, NilCore, 1, FALSE, "New", <<s.goptions>>)),
                        MkSink(Len(s.sinks) + 1, NameDfn(c.name), NilCore, 0, TRUE, "NewNamed",
                               << >>)),
                  t, c, "ok", Len(s.sinks) + 2)
    ELSE Returned(Alloc(s, MkSink(0, NameDfn(c.name), NilCore, 0, TRUE, "NewNamed", <<s.goptions>>)),
                  t, c, "ok", Len(s.sinks) + 1)

\* NewWithOptions: s.applyOptions(opts) on a core without runtimeInfo, then
\* logr.New(s), whose Init sets the sink's runtimeInfo only
NewWithOptions(s, t, c) ==
    IF applyOptionsPanics(c.opts) THEN Returned(s, t, c, "panic", 0)
    ELSE Returned(Alloc(s, MkSink(0, NilDfn, applyOptions(ZeroCore(0), c.opts),
                                  IF api = "sink" THEN 1 ELSE 0, TRUE, "NewWithOptions",
                                  << >>)),
                  t, c, "ok", Len(s.sinks) + 1)

\* a derivation that also stores its closure in the receiver
DeriveInPlace(s, t, c, dfn) ==
    Returned(Alloc([s EXCEPT !.sinks[c.h].dfn = dfn],
                   MkSink(c.h, dfn, NilCore, 0, TRUE, c.op, << >>)),
             t, c, "ok", Len(s.sinks) + 1)

\* WithName, WithValues, WithCallDepth, V: &sink{parent: l, dfn: ...}
Derive(s, t, c, dfn) ==
    Returned(Alloc(s, MkSink(c.h, dfn, NilCore, 0, TRUE, c.op, << >>)), t, c, "ok", Len(s.sinks) + 1)

\* SetVerbosity: old := atomic.SwapInt32(&gv, int32(v)); return int(old).
\* int32(v) keeps c.v and drops c.hi
SetVerbosity(s, t, c) ==
    [s EXCEPT !.gv = c.v,
              !.ev = [t |-> t, c |-> c, res |-> "ok", old |-> s.gv, writes |-> << >>,
                      new |-> 0, first |-> FALSE, fresh |-> FALSE, was |-> {},
                      seen |-> {}]]

\* the methods of the no-op logger Null (pre-v1 file only)
NullOps == {"NullEnabled", "NullInfo", "NullError", "NullV", "NullWithName", "NullWithValues"}

\* a Null whose derivation methods return
NullResultReturns(op) == IF op = "NullEnabled" THEN "false" ELSE "ok"

\* nullLogger: Enabled returns false, Info and Error have empty bodies, V,
\* WithName and WithValues panic
NullResult(op) ==
    CASE op = "NullEnabled" -> "false"
      [] op \in {"NullInfo", "NullError"} -> "ok"
      [] OTHER -> "panic"

nullLogger(s, t, c) == Returned(s, t, c, NullResult(c.op), 0)

\* an Error that does not begin with l.init.Do(l.instantiate)
EntryErrorSkipsInit(c) ==
    CASE c.op \in {"Enabled", "Info"} -> "onceDo"
      [] c.op = "Error" -> "write"
      [] c.op = "UseOptions" -> "useOptionsLock"
      [] OTHER -> "setLoggerDisabledStatus"

\* an Enabled that compares the level before l.init.Do(l.instantiate)
EntryLevelFirst(c) ==
    CASE c.op \in {"Enabled", "Info"} -> "enabledLevel"
      [] c.op = "Error" -> "onceDo"
      [] c.op = "UseOptions" -> "useOptionsLock"
      [] OTHER -> "setLoggerDisabledStatus"

\* where a call starts: Enabled, Info and Error at l.init.Do(l.instantiate),
\* UseOptions and setLoggerDisabledStatus at their Lock
Entry(c) ==
    CASE c.op \in {"Enabled", "Info", "Error"} -> "onceDo"
      [] c.op = "UseOptions" -> "useOptionsLock"
      [] OTHER -> "setLoggerDisabledStatus"

Enter(s, t, c) ==
    LET pc == Entry(c)
        log == c.op \in {"Enabled", "Info", "Error"}
    IN [s EXCEPT !.thr[t] = [IdleThread EXCEPT
                                !.pc = pc, !.c = c,
                                !.stack = IF pc = "onceDo" THEN <<c.h>> ELSE << >>,
                                !.phase = 1,
                                !.first = log /\ ~s.sinks[c.h].done,
                                !.fresh = log /\ ~s.sinks[rootOf(s.sinks, c.h)].done,
                                !.was = IF log \/ c.op = "UseOptions" THEN {}
                                        ELSE s.disabledLoggers,
                                !.seen = IF ~log THEN {}
                                         ELSE {s.disabledLoggers} \cup
                                              {s.thr[u].was : u \in
                                                 {v \in DOMAIN s.thr :
                                                    s.thr[v].pc = "storeAnyDisabled"}}],
                 !.ev = NoEv]

Begin(s, t, c) ==
    CASE c.op = "New" -> New(s, t, c)
      [] c.op = "NewNamed" -> NewNamed(s, t, c)
      [] c.op = "NewWithOptions" -> NewWithOptions(s, t, c)
      [] c.op = "WithName" -> Derive(s, t, c, NameDfn(c.name))
      [] c.op = "WithValues" -> Derive(s, t, c, ValuesDfn(c.kvs))
      [] c.op = "WithCallDepth" -> Derive(s, t, c, DepthDfn(c.v))
      [] c.op = "V" -> Derive(s, t, c, LevelDfn(c.v))
      [] c.op = "SetVerbosity" -> SetVerbosity(s, t, c)
      [] c.op \in NullOps -> nullLogger(s, t, c)
      [] c.op = "Mutate" -> Mutate(s, t, c)
      [] OTHER -> Enter(s, t, c)

\* goroutine t makes call c: as one step when whole, else its first step only
Do(t, c, whole) ==
    /\ thr[t].pc = "idle"
    /\ \E s \in {IF whole THEN Run(Begin(State, t, c), t) ELSE Begin(State, t, c)} :
            Becomes(s)

Held == {h \in 1..Len(sinks) : sinks[h].held}
Room(n) == Len(sinks) + n <= MaxSinks

ActNew(T) == \E t \in T : Room(1) /\ Do(t, Call("New", 0), TRUE)

ActNewNamed(T, Names) ==
    \E t \in T, name \in Names :
        /\ Room(IF api = "sink" THEN 2 ELSE 1)
        /\ Do(t, [Call("NewNamed", 0) EXCEPT !.name = name], TRUE)

ActNewWithOptions(T, Opts) ==
    \E t \in T, o \in Opts :
        Room(1) /\ Do(t, [Call("NewWithOptions", 0) EXCEPT !.opts = o], TRUE)

ActWithName(T, Names) ==
    \E t \in T, h \in Held, name \in Names :
        Room(1) /\ Do(t, [Call("WithName", h) EXCEPT !.name = name], TRUE)

ActWithValues(T) ==
    \E t \in T, h \in Held :
        Room(1) /\ Do(t, [Call("WithValues", h) EXCEPT !.kvs = ValuesKvs], TRUE)

\* WithValues with key/values of the caller's choice
ActWithValuesOf(T, Kvss) ==
    \E t \in T, h \in Held, kvs \in Kvss :
        Room(1) /\ Do(t, [Call("WithValues", h) EXCEPT !.kvs = kvs], TRUE)

\* the program changes its Stringer between two calls of the package
ActMutate(T, Texts) ==
    \E t \in T, text \in Texts :
        stringer # text /\ Do(t, [Call("Mutate", 0) EXCEPT !.name = text], TRUE)

ActWithCallDepth(T) ==
    \E t \in T, h \in Held :
        api = "sink" /\ Room(1) /\ Do(t, [Call("WithCallDepth", h) EXCEPT !.v = 1], TRUE)

ActV(T, Deltas) ==
    \E t \in T, h \in Held, d \in Deltas :
        api = "Logger" /\ Room(1) /\ Do(t, [Call("V", h) EXCEPT !.v = d], TRUE)

ActSetVerbosity(T, Vs) ==
    \E t \in T, v \in Vs : Do(t, [Call("SetVerbosity", 0) EXCEPT !.v = v], TRUE)

\* SetVerbosity with an int that may be outside the range of int32
ActSetVerbosityWide(T, Vs, His) ==
    \E t \in T, v \in Vs, hi \in His :
        Do(t, [Call("SetVerbosity", 0) EXCEPT !.v = v, !.hi = hi], TRUE)

ActUseOptions(T, Opts, whole) ==
    \E t \in T, o \in Opts : Do(t, [Call("UseOptions", 0) EXCEPT !.opts = o], whole)

ActDisableLogger(T, Names, whole) ==
    \E t \in T, name \in Names :
        api = "sink" /\ Do(t, [Call("DisableLogger", 0) EXCEPT !.name = name], whole)

ActEnableLogger(T, Names, whole) ==
    \E t \in T, name \in Names :
        api = "sink" /\ Do(t, [Call("EnableLogger", 0) EXCEPT !.name = name], whole)

\* Enabled(level) of the sink; Enabled() of the pre-v1 Logger
ActEnabled(T, Levels, whole) ==
    \E t \in T, h \in Held, level \in (IF api = "sink" THEN Levels ELSE {0}) :
        Do(t, [Call("Enabled", h) EXCEPT !.level = level], whole)

\* Info through the front end at a level; Info of the pre-v1 Logger
ActInfo(T, Levels, whole) ==
    \E t \in T, h \in Held, level \in (IF api = "sink" THEN Levels ELSE {0}) :
        Do(t, [Call("Info", h) EXCEPT !.level = level, !.msg = sHello, !.kvs = InfoKvs], whole)

\* a method of Null is called
ActNull(T) ==
    \E t \in T, op \in NullOps :
        api = "Logger" /\ Do(t, [Call(op, 0) EXCEPT !.msg = sHello, !.kvs = InfoKvs], TRUE)

\* Info with a message and key/values of the caller's choice
ActInfoWith(T, Levels, Msgs, Kvss, whole) ==
    \E t \in T, h \in Held, level \in Levels, msg \in Msgs, kvs \in Kvss :
        Do(t, [Call("Info", h) EXCEPT !.level = level, !.msg = msg, !.kvs = kvs], whole)

ActError(T, Errs, whole) ==
    \E t \in T, h \in Held, err \in Errs :
        Do(t, [Call("Error", h) EXCEPT !.err = err, !.msg = sUhOh, !.kvs = ErrorKvs], whole)

\* one step of a call that is under way
Proceed(t) == CanStep(State, t) /\ \E s \in {Step(State, t)} : Becomes(s)

(***************************************************************************)
(* Spec: one goroutine, every call runs to its return.  Handles are made,  *)
(* derived and used while the registry default changes between options     *)
(* that have a destination.                                                *)
(***************************************************************************)
Configured == {DefaultOptions, Humanized}

Next ==
    \/ ActNew(MainOnly)
    \/ ActNewNamed(MainOnly, {sEuropa})
    \/ ActNewWithOptions(MainOnly, {Humanized})
    \/ ActWithName(MainOnly, {sMoon})
    \/ ActWithValues(MainOnly)
    \/ ActWithCallDepth(MainOnly)
    \/ ActUseOptions(MainOnly, Configured, TRUE)
    \/ ActEnabled(MainOnly, {0}, TRUE)
    \/ ActInfo(MainOnly, {0}, TRUE)
    \/ ActError(MainOnly, {ErrV(sBoom)}, TRUE)

\* the program links the current generation, the logr v1 sink
InitSink == Init /\ api = "sink"

Spec == InitSink /\ [][Next]_vars

(***************************************************************************)
(* SpecNoWriter: one goroutine; the options given to NewWithOptions and    *)
(* to UseOptions may lack a Writer.  A panic is recovered by the caller,   *)
(* which goes on (as a test or a server's handler does).                   *)
(***************************************************************************)
NextNoWriter ==
    \/ ActNew(MainOnly)
    \/ ActNewWithOptions(MainOnly, {DefaultOptions, NoWriter})
    \/ ActWithValues(MainOnly)
    \/ ActUseOptions(MainOnly, {DefaultOptions, NoWriter}, TRUE)
    \/ ActEnabled(MainOnly, {0}, TRUE)
    \/ ActInfo(MainOnly, {0}, TRUE)
    \/ ActError(MainOnly, ErrIn, TRUE)

SpecNoWriter == Init /\ [][NextNoWriter]_vars

(***************************************************************************)
(* SpecGate: one goroutine; the verbosity threshold and the disabled       *)
(* names change while named handles and V levels are used, under the       *)
(* default options.                                                        *)
(***************************************************************************)
NextGate ==
    \/ ActNew(MainOnly)
    \/ ActWithName(MainOnly, NamesIn)
    \/ ActV(MainOnly, DeltasIn)
    \/ ActSetVerbosity(MainOnly, VerbosityIn)
    \/ ActDisableLogger(MainOnly, DisableIn, TRUE)
    \/ ActEnableLogger(MainOnly, DisableIn, TRUE)
    \/ ActEnabled(MainOnly, LevelsIn, TRUE)
    \/ ActInfo(MainOnly, {0, 2}, TRUE)
    \/ ActError(MainOnly, {ErrV(sBoom)}, TRUE)

SpecGate == Init /\ [][NextGate]_vars

(***************************************************************************)
(* SpecConc: two goroutines whose calls interleave step by step.  The      *)
(* main goroutine makes the handles; both use them.                        *)
(***************************************************************************)
MaxConcSinks == 2

NextConc ==
    \/ Len(sinks) < MaxConcSinks /\ ActNew(MainOnly)
    \/ Len(sinks) < MaxConcSinks /\ ActWithName(MainOnly, {sEuropa})
    \/ ActUseOptions(MainOnly, {Humanized}, FALSE)
    \/ ActEnabled(Goroutines, {0}, FALSE)
    \/ ActInfo(Goroutines, {0}, FALSE)
    \/ ActError(Goroutines, {NilV}, FALSE)
    \/ \E t \in Goroutines : Proceed(t)

SpecConc == Init /\ [][NextConc]_vars

(***************************************************************************)
(* SpecFormat: one goroutine, the logr v1 sink; records are written with   *)
(* and without a name, a context, a timestamp and a caller, with messages  *)
(* and key/values of several shapes, to a destination that takes them and  *)
(* to one whose Write fails.                                               *)
(***************************************************************************)
NextFormat ==
    \/ ActNew(MainOnly)
    \/ ActNewWithOptions(MainOnly, {Broken})
    \/ ActWithName(MainOnly, {sMyName})
    \/ ActWithValues(MainOnly)
    \/ ActSetVerbosity(MainOnly, {1})
    \/ ActInfoWith(MainOnly, {1}, MsgsIn, KvsIn, TRUE)
    \/ ActError(MainOnly, ErrIn, TRUE)

SpecFormat == InitSink /\ [][NextFormat]_vars

(***************************************************************************)
(* SpecFrame: one goroutine, both generations; handles are made, derived   *)
(* (also with an empty name) and used while the registries change, and     *)
(* the methods of Null are called.                                         *)
(***************************************************************************)
NextFrame ==
    \/ ActNew(MainOnly)
    \/ ActNewNamed(MainOnly, {Empty})
    \/ ActNewWithOptions(MainOnly, {Humanized})
    \/ ActWithName(MainOnly, {sMoon, Empty})
    \/ ActWithValues(MainOnly)
    \/ ActWithCallDepth(MainOnly)
    \/ ActV(MainOnly, {1})
    \/ ActUseOptions(MainOnly, {Humanized}, TRUE)
    \/ ActSetVerbosity(MainOnly, {1})
    \/ ActDisableLogger(MainOnly, {sMoon}, TRUE)
    \/ ActEnableLogger(MainOnly, {sMoon}, TRUE)
    \/ ActInfo(MainOnly, {0}, TRUE)
    \/ ActNull(MainOnly)

SpecFrame == Init /\ [][NextFrame]_vars

(***************************************************************************)
(* SpecStringer: one goroutine, the logr v1 sink; a value given to         *)
(* WithValues is a Stringer of the program, which the program changes      *)
(* between its calls.                                                      *)
(***************************************************************************)
NextStringer ==
    \/ ActNew(MainOnly)
    \/ ActWithValuesOf(MainOnly, {RefKvs})
    \/ ActMutate(MainOnly, {sYou, sMoon})
    \/ ActUseOptions(MainOnly, {Humanized}, TRUE)
    \/ ActInfo(MainOnly, {0}, TRUE)
    \/ ActError(MainOnly, {NilV}, TRUE)

SpecStringer == InitSink /\ [][NextStringer]_vars

(***************************************************************************)
(* SpecVerbosity: two goroutines set the threshold, to values inside and   *)
(* outside the range of int32, and ask Enabled, step by step.              *)
(***************************************************************************)
HiIn == {0, 1}

NextVerbosity ==
    \/ Len(sinks) < MaxConcSinks /\ ActNew(MainOnly)
    \/ ActSetVerbosityWide(Goroutines, {-1, 0, 1}, HiIn)
    \/ ActEnabled(Goroutines, LevelsIn, FALSE)
    \/ \E t \in Goroutines : Proceed(t)

SpecVerbosity == Init /\ [][NextVerbosity]_vars

(***************************************************************************)
(* SpecRegistry: two goroutines, the logr v1 sink; the disabled names are  *)
(* updated while handles with and without a name are asked Enabled, step   *)
(* by step.                                                                *)
(***************************************************************************)
NextRegistry ==
    \/ Len(sinks) < MaxConcSinks /\ ActNew(MainOnly)
    \/ Len(sinks) < MaxConcSinks /\ ActWithName(MainOnly, {sEuropa})
    \/ ActDisableLogger(Goroutines, {sEuropa, sMoon}, FALSE)
    \/ ActEnableLogger(Goroutines, {sEuropa, sMoon}, FALSE)
    \/ ActEnabled(Goroutines, {0}, FALSE)
    \/ \E t \in Goroutines : Proceed(t)

SpecRegistry == InitSink /\ [][NextRegistry]_vars

(***************************************************************************)
(* SpecLocks: the main goroutine makes the handles and updates the         *)
(* registry (UseOptions, DisableLogger, EnableLogger) step by step while   *)
(* the other goroutine's Enabled and Info calls take their steps.          *)
(***************************************************************************)
Other == Goroutines \ MainOnly

NextLocks ==
    \/ Len(sinks) < MaxConcSinks /\ ActNew(MainOnly)
    \/ Len(sinks) < MaxConcSinks /\ ActWithName(MainOnly, {sEuropa})
    \/ ActUseOptions(MainOnly, {Humanized}, FALSE)
    \/ ActDisableLogger(MainOnly, {sEuropa}, FALSE)
    \/ ActEnableLogger(MainOnly, {sEuropa}, FALSE)
    \/ ActEnabled(Other, {0}, FALSE)
    \/ ActInfo(Other, {0}, FALSE)
    \/ \E t \in Goroutines : Proceed(t)

SpecLocks == InitSink /\ [][NextLocks]_vars

(***************************************************************************)
(* SpecFair: the logr v1 sink under the scheduling of Go.  The main        *)
(* goroutine makes a handle and a handle derived from it, calls            *)
(* UseOptions and Info; the other goroutine calls Enabled and Error; all   *)
(* step by step.  A goroutine that can run is run, and a goroutine that    *)
(* waits in sync.Mutex.Lock gets the mutex when it is unlocked again and   *)
(* again (Unlock hands the mutex to a waiter that failed to acquire it:    *)
(* the starvation mode of sync.Mutex), so the step of a goroutine is taken *)
(* when it is enabled infinitely often.                                    *)
(***************************************************************************)
NextFair ==
    \/ Len(sinks) < MaxConcSinks /\ ActNew(MainOnly)
    \/ Len(sinks) < MaxConcSinks /\ ActWithName(MainOnly, {sEuropa})
    \/ ActUseOptions(MainOnly, {Humanized}, FALSE)
    \/ ActInfo(MainOnly, {0}, FALSE)
    \/ ActEnabled(Other, {0}, FALSE)
    \/ ActError(Other, {NilV}, FALSE)
    \/ \E t \in Goroutines : Proceed(t)

SpecFair == InitSink /\ [][NextFair]_vars /\ \A t \in Goroutines : SF_vars(Proceed(t))

(***************************************************************************)
(* SpecFreeze: one goroutine, both generations; handles with names and V   *)
(* levels are asked Enabled and log at levels within and above the         *)
(* threshold, while a name is disabled and the registry default changes.   *)
(***************************************************************************)
NextFreeze ==
    \/ ActNew(MainOnly)
    \/ ActWithName(MainOnly, {sMoon})
    \/ ActV(MainOnly, {1})
    \/ ActUseOptions(MainOnly, {Humanized}, TRUE)
    \/ ActDisableLogger(MainOnly, {sMoon}, TRUE)
    \/ ActEnabled(MainOnly, {0, 1}, TRUE)
    \/ ActInfo(MainOnly, {0, 1}, TRUE)

SpecFreeze == Init /\ [][NextFreeze]_vars

(***************************************************************************)
(* SpecColor: one goroutine, both generations; the options given to        *)
(* NewWithOptions and UseOptions set Colorize with and without Humanize.   *)
(***************************************************************************)
ColorOnly == [DefaultOptions EXCEPT !.Colorize = TRUE]

NextColor ==
    \/ ActNew(MainOnly)
    \/ ActNewWithOptions(MainOnly, {ColorOnly, Humanized})
    \/ ActWithName(MainOnly, {sMoon})
    \/ ActWithValues(MainOnly)
    \/ ActWithCallDepth(MainOnly)
    \/ ActV(MainOnly, {1})
    \/ ActUseOptions(MainOnly, {ColorOnly, Humanized}, TRUE)
    \/ ActInfo(MainOnly, {0}, TRUE)

SpecColor == Init /\ [][NextColor]_vars

(***************************************************************************)
(* SpecCaller: one goroutine, the logr v1 sink; the options given to       *)
(* NewWithOptions and to UseOptions ask for the caller, and records are    *)
(* written through handles of both constructors and their derivations.     *)
(***************************************************************************)
NextCaller ==
    \/ ActNew(MainOnly)
    \/ ActNewWithOptions(MainOnly, {Terse})
    \/ ActWithName(MainOnly, {sMoon})
    \/ ActWithCallDepth(MainOnly)
    \/ ActUseOptions(MainOnly, {Terse}, TRUE)
    \/ ActInfo(MainOnly, {0}, TRUE)
    \/ ActError(MainOnly, {NilV}, TRUE)

SpecCaller == InitSink /\ [][NextCaller]_vars

(***************************************************************************)
(* What the handles are expected to hold.                                  *)
(***************************************************************************)
\* the Core handle h holds once its root has applied opts: the root's core
\* with its own dfn, every derived handle's dfn on a copy of its parent's
RECURSIVE Built(_, _)
Built(h, opts) ==
    IF sinks[h].parent # 0
    THEN applyDfn(api, Built(sinks[h].parent, opts), sinks[h].dfn)
    ELSE IF sinks[h].ctor = "NewWithOptions" THEN sinks[h].core
    ELSE applyDfn(api,
                  applyOptions(ZeroCore(IF api = "sink" THEN sinks[h].callDepth ELSE 0), opts),
                  sinks[h].dfn)

\* the positions of a call after its l.init.Do(l.instantiate)
BodyPcs == {"enabledLevel", "enabledName", "enabledLookup", "loggerEnabled", "write"}

LogOps == {"Enabled", "Info", "Error"}

(***************************************************************************)
(* C1: when goroutines make the first call on the same deferred handle     *)
(* concurrently, instantiate runs once for each handle of the chain and    *)
(* the root applies the registry default once; a goroutine that is past    *)
(* l.init.Do reads a Core that is allocated and is the one built from the  *)
(* options the root applied, and that Core never changes afterwards.       *)
(* (The registry default has a Writer here.)                               *)
(***************************************************************************)
C1_PastInitSeesBuiltCore ==
    \A t \in Goroutines :
        thr[t].pc \in BodyPcs =>
            LET h == thr[t].c.h
                r == rootOf(sinks, h)
            IN /\ sinks[h].done
               /\ sinks[h].ninst = 1
               /\ Len(sinks[r].applied) = 1
               /\ sinks[h].core.alloc
               /\ sinks[h].core = Built(h, sinks[r].applied[1])

C1_CoreIsStable ==
    \A h \in DOMAIN sinks :
        sinks[h].done => /\ sinks'[h].done
                         /\ sinks'[h].core = sinks[h].core
                         /\ sinks'[h].ninst = sinks[h].ninst
                         /\ sinks'[h].applied = sinks[h].applied

C1_MaterializedOnce ==
    /\ [](\A h \in DOMAIN sinks : sinks[h].ninst <= 1 /\ Len(sinks[h].applied) <= 1)
    /\ []C1_PastInitSeesBuiltCore
    /\ [][C1_CoreIsStable]_vars

\* both goroutines began their call on the same derived handle before its
\* sync.Once had run, and both are past l.init.Do
C1_Witness ==
    /\ thr[1].first /\ thr[2].first
    /\ thr[1].c.h = thr[2].c.h
    /\ thr[1].pc = "write" /\ thr[2].pc \in BodyPcs
    /\ sinks[thr[1].c.h].parent # 0
    /\ goptions = Humanized

\* the options the root of h's chain applied when it was materialized
RootOptions(h) ==
    LET r == rootOf(sinks, h)
    IN IF sinks[r].applied # << >> THEN sinks[r].applied[1] ELSE DefaultOptions

Deferrable(h) == sinks[rootOf(sinks, h)].ctor # "NewWithOptions"

\* the last step was a call of Enabled, Info or Error that returned
Logged == ev.c.op \in LogOps /\ ev.res \in {"ok", "true", "false"}

\* every record the last call wrote is the line of core c
WroteWith(c) == \A i \in 1..Len(ev.writes) : ev.writes[i].bytes = Line(c, ev.c)

(***************************************************************************)
(* C2 (as amended): every materialized handle holds the Core built from    *)
(* the options its root was materialized with (the registry default at the *)
(* first use of any handle of its tree, or the options given to            *)
(* NewWithOptions); every record written through it is formatted by that   *)
(* Core, and no later call, UseOptions included, changes the Core or the   *)
(* options its root applied.                                               *)
(***************************************************************************)
C2_HoldsRootOptions ==
    \A h \in DOMAIN sinks :
        sinks[h].done => sinks[h].core = Built(h, RootOptions(h))

C2_RecordsUseRootOptions ==
    Logged => WroteWith(Built(ev.c.h, RootOptions(ev.c.h)))

C2_Committed ==
    /\ []C2_HoldsRootOptions
    /\ []C2_RecordsUseRootOptions
    /\ [][C1_CoreIsStable]_vars

\* C2 as stated: a handle is committed, from its first use on, to the options
\* that were in effect at that first use
C2_Original ==
    (Logged /\ ev.first) => sinks[ev.c.h].core = Built(ev.c.h, goptions)

\* a record written through a handle that was first used before the registry
\* default changed: it is formatted with the old options
C2_Witness ==
    /\ Logged /\ ~ev.first /\ ev.c.op = "Info" /\ Len(ev.writes) = 1
    /\ Deferrable(ev.c.h) /\ sinks[ev.c.h].parent # 0
    /\ RootOptions(ev.c.h) = DefaultOptions /\ goptions = Humanized
    /\ WroteWith(Built(ev.c.h, DefaultOptions))
    /\ ~WroteWith(Built(ev.c.h, Humanized))

(***************************************************************************)
(* C3: when the first call on a handle made by New or NewNamed, or derived *)
(* from one, finds no handle of its tree used before, the handle is        *)
(* materialized with the registry default of that moment (the options of   *)
(* the last UseOptions that returned), whatever the default was when the   *)
(* handles were made, and its record is formatted with it.                 *)
(***************************************************************************)
C3_FirstUseReadsRegistry ==
    (Logged /\ ev.fresh /\ Deferrable(ev.c.h)) =>
        /\ sinks[rootOf(sinks, ev.c.h)].applied = <<goptions>>
        /\ sinks[ev.c.h].core = Built(ev.c.h, goptions)
        /\ WroteWith(Built(ev.c.h, goptions))

\* a derived handle whose root was made under the default options is first
\* used after UseOptions(Humanized): its record is humanized
C3_Witness ==
    /\ Logged /\ ev.fresh /\ ev.c.op = "Info" /\ Len(ev.writes) = 1
    /\ sinks[ev.c.h].parent # 0
    /\ sinks[rootOf(sinks, ev.c.h)].born = <<DefaultOptions>>
    /\ goptions = Humanized
    /\ sinks[ev.c.h].core.humanize /\ sinks[ev.c.h].core.colorize
    /\ WroteWith(Built(ev.c.h, Humanized))

(***************************************************************************)
(* C4 (as amended): when handle A was materialized before UseOptions(new)  *)
(* and its sibling B, derived from the same parent, is first used after    *)
(* it, B is materialized with the options A was materialized with, not     *)
(* with new: materializing A materialized their common ancestors.          *)
(***************************************************************************)
\* the last call was the first use of B, whose sibling a was materialized
\* under options that are no longer the registry default
SiblingCase(a) ==
    LET b == ev.c.h
    IN /\ Logged /\ ev.first
       /\ a # b /\ sinks[b].parent # 0 /\ sinks[a].parent = sinks[b].parent
       /\ Deferrable(b)
       /\ sinks[a].done /\ RootOptions(a) # goptions

C4_SiblingKeepsOldOptions ==
    \A a \in DOMAIN sinks :
        SiblingCase(a) =>
            /\ sinks[ev.c.h].core = Built(ev.c.h, RootOptions(a))
            /\ sinks[ev.c.h].core # Built(ev.c.h, goptions)
            /\ WroteWith(Built(ev.c.h, RootOptions(a)))

\* C4 as stated: B is materialized with the new options
C4_Original ==
    \A a \in DOMAIN sinks :
        SiblingCase(a) => sinks[ev.c.h].core = Built(ev.c.h, goptions)

C4_Witness ==
    \E a \in DOMAIN sinks :
        /\ SiblingCase(a)
        /\ ev.c.op = "Info" /\ Len(ev.writes) = 1
        /\ RootOptions(a) = DefaultOptions /\ goptions = Humanized
        /\ ~sinks[ev.c.h].core.humanize
        /\ WroteWith(Built(ev.c.h, DefaultOptions))

(***************************************************************************)
(* What the gates are expected to answer.                                  *)
(***************************************************************************)
\* the sum of the V deltas on the derivation chain of h
RECURSIVE LevelOf(_)
LevelOf(h) ==
    (IF sinks[h].dfn.k = "V" THEN sinks[h].dfn.d ELSE 0)
    + (IF sinks[h].parent = 0 THEN 0 ELSE LevelOf(sinks[h].parent))

\* the names on the derivation chain of h, joined by the default delimiter
RECURSIVE ComposedName(_)
ComposedName(h) ==
    LET own == IF sinks[h].dfn.k = "name" THEN sinks[h].dfn.name ELSE Empty
        up == IF sinks[h].parent = 0 THEN Empty ELSE ComposedName(sinks[h].parent)
    IN IF own = Empty THEN up
       ELSE IF up = Empty THEN own
       ELSE up \o sDot \o own

\* the level of the last call: the sink is given the level the front end's V
\* calls have added up; the pre-v1 Logger adds them up in its Core
CallLevel == IF api = "sink" THEN ev.c.level ELSE LevelOf(ev.c.h)

(***************************************************************************)
(* C5: Enabled returns false whenever the level is greater than the global *)
(* verbosity threshold, negative levels and thresholds included; the level *)
(* of a pre-v1 handle is the sum of the V deltas of its chain, and Enabled *)
(* is true exactly when that sum is at most the threshold, so a negative   *)
(* delta re-enables a handle.                                              *)
(***************************************************************************)
C5_EnabledRespectsThreshold ==
    (ev.c.op = "Enabled" /\ Logged) =>
        /\ CallLevel > gv => ev.res = "false"
        /\ api = "Logger" =>
              /\ sinks[ev.c.h].core.level = LevelOf(ev.c.h)
              /\ ev.res = "true" <=> LevelOf(ev.c.h) <= gv

\* V(2) is above the threshold 1 and V(2).V(-1) is enabled again
C5_Witness ==
    /\ api = "Logger" /\ ev.c.op = "Enabled" /\ ev.res = "true"
    /\ gv = 1
    /\ sinks[ev.c.h].dfn = LevelDfn(-1)
    /\ sinks[ev.c.h].parent # 0
    /\ sinks[sinks[ev.c.h].parent].dfn = LevelDfn(2)
    /\ LevelOf(sinks[ev.c.h].parent) > gv
    /\ LevelOf(ev.c.h) = 1

(***************************************************************************)
(* C6: Info writes nothing when the handle is not enabled at               *)
(* the time of the call (its level exceeds the threshold, or its non-empty *)
(* name is in the disabled set) and one record when it is; Info at level 2 *)
(* with threshold 1 writes nothing.  Error of the pre-v1 Logger is gated   *)
(* by the level in the same way.  Error of the sink is not gated: it       *)
(* writes one record whatever the threshold and the disabled set are.      *)
(***************************************************************************)
EnabledNow ==
    /\ CallLevel <= gv
    /\ api = "sink" =>
          \/ ComposedName(ev.c.h) = Empty
          \/ ComposedName(ev.c.h) \notin disabledLoggers

C6_InfoIsGated ==
    /\ (ev.c.op = "Info" /\ Logged) =>
          Len(ev.writes) = (IF EnabledNow THEN 1 ELSE 0)
    /\ (ev.c.op = "Error" /\ Logged /\ api = "Logger") =>
          Len(ev.writes) = (IF EnabledNow THEN 1 ELSE 0)
    /\ (ev.c.op = "Error" /\ Logged /\ api = "sink") => Len(ev.writes) = 1

\* C6 as stated: neither Info nor Error writes when the level exceeds the
\* threshold or the exact name is in the disabled set
C6_Original ==
    (ev.c.op \in {"Info", "Error"} /\ Logged
        /\ (CallLevel > gv \/ ComposedName(ev.c.h) \in disabledLoggers))
    => ev.writes = << >>

\* Info at level 2 under threshold 1 returned and wrote nothing
C6_Witness ==
    /\ ev.c.op = "Info" /\ Logged
    /\ CallLevel = 2 /\ gv = 1
    /\ ev.writes = << >>

(***************************************************************************)
(* C7: DisableLogger(n) adds n to the disabled set and                     *)
(* nothing else; a handle whose level passes the threshold reports Enabled *)
(* false exactly when its composed name is not empty and is in the set:    *)
(* with "europa" disabled the handle "europa" is disabled and the handle   *)
(* "europa.moon" stays enabled unless that name is disabled too.  A handle *)
(* without a name is never disabled, DisableLogger("") changes nothing     *)
(* for it.                                                                 *)
(***************************************************************************)
C7_ExactNameOnly ==
    /\ (ev.c.op = "DisableLogger" /\ ev.res = "ok") =>
          disabledLoggers = ev.was \cup {ev.c.name}
    /\ (api = "sink" /\ ev.c.op = "Enabled" /\ Logged) =>
          /\ sinks[ev.c.h].core.name = ComposedName(ev.c.h)
          /\ ev.c.level <= gv =>
                (ev.res = "false" <=>
                    /\ ComposedName(ev.c.h) # Empty
                    /\ ComposedName(ev.c.h) \in disabledLoggers)

\* C7 as stated: the disabled handles are exactly those whose composed name
\* was given to DisableLogger
C7_Original ==
    (api = "sink" /\ ev.c.op = "Enabled" /\ Logged /\ ev.c.level <= gv) =>
        (ev.res = "false" <=> ComposedName(ev.c.h) \in disabledLoggers)

\* with "europa" disabled, the handle derived from "europa" by
\* WithName("moon") reports Enabled true
C7_Witness ==
    /\ api = "sink" /\ ev.c.op = "Enabled" /\ ev.res = "true"
    /\ disabledLoggers = {sEuropa} /\ anyDisabled = 1
    /\ ComposedName(ev.c.h) = sEuropaMoon
    /\ ComposedName(sinks[ev.c.h].parent) = sEuropa

(***************************************************************************)
(* C8: DisableLogger(n) and EnableLogger(n) change the status              *)
(* of n only; applied to a name that is already disabled (enabled) they    *)
(* leave the disabled set and the fast-path flag as they are; the flag is  *)
(* 1 exactly when the set is not empty.  DisableLogger(n) followed by      *)
(* EnableLogger(n) leaves n enabled: it restores the state before the      *)
(* pair when n was enabled before, not when n was already disabled.        *)
(***************************************************************************)
C8_RegistryAfterCall ==
    /\ anyDisabled = (IF disabledLoggers = {} THEN 0 ELSE 1)
    /\ (ev.c.op = "DisableLogger" /\ ev.res = "ok") =>
          /\ disabledLoggers = ev.was \cup {ev.c.name}
          /\ ev.c.name \in ev.was => disabledLoggers = ev.was
    /\ (ev.c.op = "EnableLogger" /\ ev.res = "ok") =>
          /\ disabledLoggers = ev.was \ {ev.c.name}
          /\ ev.c.name \notin ev.was => disabledLoggers = ev.was

\* EnableLogger(n) right after DisableLogger(n)
DisableThenEnable ==
    /\ ev.c.op = "DisableLogger" /\ ev.res = "ok"
    /\ ev'.c.op = "EnableLogger" /\ ev'.res = "ok"
    /\ ev'.c.name = ev.c.name

C8_PairLeavesEnabled ==
    DisableThenEnable =>
        /\ disabledLoggers' = ev.was \ {ev.c.name}
        /\ ev.c.name \notin ev.was => disabledLoggers' = ev.was

C8_DisableEnable == []C8_RegistryAfterCall /\ [][C8_PairLeavesEnabled]_vars

\* C8 as stated: the pair restores the state before it
C8_Original == [][DisableThenEnable => disabledLoggers' = ev.was]_vars

\* EnableLogger("europa") while "europa.moon" is disabled too: only "europa"
\* is enabled again
C8_Witness ==
    /\ ev.c.op = "EnableLogger" /\ ev.res = "ok" /\ ev.c.name = sEuropa
    /\ ev.was = {sEuropa, sEuropaMoon}
    /\ disabledLoggers = {sEuropaMoon} /\ anyDisabled = 1

(***************************************************************************)
(* What a record is expected to hold.                                      *)
(***************************************************************************)
\* strings.Contains(s, sub)
Contains(s, sub) ==
    \E i \in 0..(Len(s) - Len(sub)) : SubSeq(s, i + 1, i + Len(sub)) = sub

\* the root of h's chain has, or gets at this first use, options with a
\* Writer: it was made by NewWithOptions, or it is materialized by this call
\* from a registry default that has one, or it was materialized before and
\* holds one
Destination(h) ==
    LET r == rootOf(sinks, h)
    IN IF sinks[r].ctor = "NewWithOptions" THEN TRUE
       ELSE IF ev.fresh THEN goptions.Writer # NilWriter
       ELSE sinks[r].core.alloc /\ sinks[r].core.w # NilWriter

(***************************************************************************)
(* C9: Error may be the first call on a deferred handle, such as one       *)
(* returned by WithValues: given options with a destination, it            *)
(* materializes the handle and writes one record without panicking; with   *)
(* a nil err the record holds error=<nil>, else the error's message.       *)
(***************************************************************************)
C9_ErrorFirstCall ==
    (ev.c.op = "Error" /\ ev.res # "none" /\ ev.first /\ Destination(ev.c.h)) =>
        /\ ev.res = "ok"
        /\ sinks[ev.c.h].done /\ sinks[ev.c.h].core.alloc
        /\ Len(ev.writes) = 1
        /\ ev.writes[1].w # NilWriter
        /\ ev.c.err = NilV => Contains(ev.writes[1].bytes, sError \o EQ \o sNilText \o SP)
        /\ ev.c.err = ErrV(sBoom) => Contains(ev.writes[1].bytes, sError \o EQ \o sBoom \o SP)

\* Error(nil, ...) was the first call on a handle returned by WithValues and
\* on its tree
C9_Witness ==
    /\ ev.c.op = "Error" /\ ev.res = "ok" /\ ev.first /\ ev.fresh
    /\ ev.c.err = NilV
    /\ sinks[ev.c.h].dfn = ValuesDfn(ValuesKvs)
    /\ Len(ev.writes) = 1
    /\ Contains(ev.writes[1].bytes, sError \o EQ \o sNilText \o SP)

(***************************************************************************)
(* C10: NewWithOptions with a nil Writer panics and returns no logger; the *)
(* first use of a deferred root while the registry default has a nil       *)
(* Writer panics and writes nothing; no record is written through a Core   *)
(* without a destination.  The first use of a deferred root panics only    *)
(* if it gets to apply the options: instantiate takes goptionsmu before    *)
(* applyOptions and the panic leaves it locked, so the first use of the    *)
(* next deferred root waits for goptionsmu for ever instead of panicking.  *)
(***************************************************************************)
\* goroutine t waits for goptionsmu and no goroutine is in a section that
\* unlocks it
WaitsForEver(t) ==
    /\ thr[t].pc = "rootLock"
    /\ goptionsmu
    /\ \A u \in Goroutines : thr[u].pc \notin {"rootApply", "useOptionsStore"}

C10_Original ==
    /\ (ev.c.op = "NewWithOptions" /\ ev.c.opts.Writer = NilWriter) =>
          ev.res = "panic" /\ ev.new = 0
    /\ \A h \in DOMAIN sinks :
          sinks[h].ctor = "NewWithOptions" => sinks[h].core.w # NilWriter
    /\ (ev.c.op \in LogOps /\ ev.res # "none" /\ ev.fresh /\ Deferrable(ev.c.h)
            /\ goptions.Writer = NilWriter) =>
          ev.res = "panic" /\ ev.writes = << >>
    /\ \A t \in Goroutines :
          (thr[t].c.op \in LogOps /\ thr[t].fresh /\ Deferrable(thr[t].c.h)
              /\ goptions.Writer = NilWriter) => ~WaitsForEver(t)
    /\ \A i \in 1..Len(ev.writes) :
          /\ ev.writes[i].w # NilWriter
          /\ sinks[ev.writes[i].h].core.w # NilWriter

\* the first use of a derived handle of a deferred root panicked: the
\* registry default has no Writer
C10_Witness ==
    /\ ev.c.op = "Info" /\ ev.res = "panic" /\ ev.fresh
    /\ sinks[ev.c.h].parent # 0
    /\ Deferrable(ev.c.h)
    /\ goptions = NoWriter
    /\ ev.writes = << >>

(***************************************************************************)
(* C11: in the machine layout of core.write the fields of a record appear  *)
(* in this order, separated by single spaces and ended by a newline:       *)
(* level, logger (only if the name is non-empty), ts (only if a timestamp  *)
(* format is set), msg, caller (only if enabled), the error extra of an    *)
(* Error call, the accumulated WithValues context, the call-site           *)
(* key/values.  New().WithName("MyName").WithValues("user","you") logging  *)
(* Info("hello","val1",1) at level 1 under threshold 1 writes              *)
(* level=1 logger=MyName ts=... msg=hello user=you val1=1.                 *)
(***************************************************************************)
\* the tokens of seq that are not empty, joined by single spaces
RECURSIVE JoinSp(_)
JoinSp(seq) ==
    IF seq = << >> THEN Empty
    ELSE IF Head(seq) = Empty THEN JoinSp(Tail(seq))
    ELSE IF JoinSp(Tail(seq)) = Empty THEN Head(seq)
    ELSE Head(seq) \o SP \o JoinSp(Tail(seq))

\* the fields of the record of call, written through Core c, in their order
Fields(c, call) ==
    << sLevelEq \o Itoa(IF call.op = "Error" THEN 0 ELSE call.level),
       IF c.name # Empty THEN sLoggerEq \o quote(c.name) ELSE Empty,
       IF c.tsFormat # Empty THEN sTsEq \o quote(FormatNow(c.tsFormat)) ELSE Empty,
       sMsgEq \o quote(call.msg),
       IF c.addCaller THEN sCallerEq \o caller("sink", c, 1) ELSE Empty,
       IF call.op = "Error" THEN sError \o EQ \o stringify(call.err) ELSE Empty,
       c.values,
       flatten(c, call.kvs) >>

\* the handle is New().WithName("MyName").WithValues("user", "you")
IsDemoHandle(h) ==
    /\ sinks[h].dfn = ValuesDfn(ValuesKvs)
    /\ sinks[h].parent # 0
    /\ sinks[sinks[h].parent].dfn = NameDfn(sMyName)
    /\ sinks[sinks[h].parent].parent # 0
    /\ sinks[sinks[sinks[h].parent].parent].ctor = "New"

DemoLine ==
    sLevelEq \o <<"1">> \o SP \o sLoggerEq \o sMyName \o SP \o sTsEq \o nowDefault
    \o SP \o sMsgEq \o sHello \o SP \o sUser \o EQ \o sYou
    \o SP \o sVal1 \o EQ \o <<"1">> \o NL

C11_FieldOrder ==
    /\ \A i \in 1..Len(ev.writes) :
          LET c == sinks[ev.writes[i].h].core
          IN ~c.humanize => ev.writes[i].bytes = JoinSp(Fields(c, ev.c)) \o NL
    /\ (ev.c.op = "Info" /\ ev.res = "ok" /\ IsDemoHandle(ev.c.h) /\ ev.c.level = 1
            /\ gv = 1 /\ ev.c.msg = sHello /\ ev.c.kvs = InfoKvs) =>
          /\ Len(ev.writes) = 1
          /\ ev.writes[1].bytes = DemoLine

\* the record of the example was written
C11_Witness ==
    /\ ev.c.op = "Info" /\ ev.res = "ok" /\ IsDemoHandle(ev.c.h)
    /\ ev.c.level = 1 /\ gv = 1 /\ ev.c.msg = sHello /\ ev.c.kvs = InfoKvs
    /\ Len(ev.writes) = 1
    /\ ev.writes[1].bytes = DemoLine

(***************************************************************************)
(* C12: the no-op logger Null reports Enabled false in every state, its    *)
(* Info and Error write nothing and change no state, and each of V,        *)
(* WithName and WithValues panics instead of returning a logger.           *)
(***************************************************************************)
C12_NullAnswers ==
    ev.c.op \in NullOps =>
        /\ ev.writes = << >>
        /\ ev.new = 0
        /\ ev.c.op = "NullEnabled" => ev.res = "false"
        /\ ev.c.op \in {"NullInfo", "NullError"} => ev.res = "ok"
        /\ ev.c.op \in {"NullV", "NullWithName", "NullWithValues"} => ev.res = "panic"

C12_NullChangesNothing ==
    ev'.c.op \in NullOps =>
        /\ sinks' = sinks
        /\ goptions' = goptions /\ goptionsmu' = goptionsmu
        /\ gv' = gv
        /\ disabledLoggers' = disabledLoggers /\ anyDisabled' = anyDisabled
        /\ disabledLoggersMu' = disabledLoggersMu

C12_NullLogger == []C12_NullAnswers /\ [][C12_NullChangesNothing]_vars

\* WithName of Null panicked in a program that holds materialized loggers
C12_Witness ==
    /\ ev.c.op = "NullWithName" /\ ev.res = "panic"
    /\ \E h \in DOMAIN sinks : sinks[h].done
    /\ gv = 1

(***************************************************************************)
(* C13: WithName, WithValues and WithCallDepth (and V of the pre-v1        *)
(* Logger) return a new deferred handle whose parent is the receiver and   *)
(* whose derivation is the one asked for; they change no existing handle   *)
(* (Core, parent, derivation, sync.Once) and no registry, so they          *)
(* materialize neither the receiver nor any of its ancestors.              *)
(***************************************************************************)
DeriveOps == {"WithName", "WithValues", "WithCallDepth", "V"}

\* the closure the operation of call c captures
DfnOf(c) ==
    CASE c.op = "WithName" -> NameDfn(c.name)
      [] c.op = "WithValues" -> ValuesDfn(c.kvs)
      [] c.op = "WithCallDepth" -> DepthDfn(c.v)
      [] c.op = "V" -> LevelDfn(c.v)

C13_DerivationFrame ==
    (ev'.c.op \in DeriveOps /\ ev'.res = "ok") =>
        /\ Len(sinks') = Len(sinks) + 1
        /\ ev'.new = Len(sinks')
        /\ sinks'[ev'.new].parent = ev'.c.h
        /\ sinks'[ev'.new].dfn = DfnOf(ev'.c)
        /\ ~sinks'[ev'.new].done
        /\ ~sinks'[ev'.new].core.alloc
        /\ \A h \in DOMAIN sinks : sinks'[h] = sinks[h]
        /\ goptions' = goptions /\ gv' = gv
        /\ disabledLoggers' = disabledLoggers /\ anyDisabled' = anyDisabled
        /\ ev'.writes = << >>

C13_Derivation == [][C13_DerivationFrame]_vars

\* a handle was derived from a deferred handle that is itself derived: the
\* receiver and its parent are still deferred
C13_Witness ==
    /\ ev.c.op = "WithValues" /\ ev.res = "ok"
    /\ sinks[ev.new].parent = ev.c.h
    /\ sinks[ev.c.h].parent # 0
    /\ ~sinks[ev.c.h].done /\ ~sinks[ev.c.h].core.alloc
    /\ ~sinks[sinks[ev.c.h].parent].done

(***************************************************************************)
(* C14: once a handle holds a Core it holds that Core with unchanged field *)
(* values in every later state and never returns to the deferred state:    *)
(* no derivation from it, materialization of a child, UseOptions,          *)
(* SetVerbosity, DisableLogger or EnableLogger call alters it.  No two     *)
(* handles hold the same Core object: the Core a child gets is a copy of   *)
(* its parent's with the child's derivation applied, and writing it leaves *)
(* the Core of every other handle as it was.                               *)
(***************************************************************************)
C14_CoreKept ==
    \A h \in DOMAIN sinks :
        /\ sinks[h].core.alloc => sinks'[h].core = sinks[h].core
        /\ sinks[h].done => sinks'[h].done

C14_ChildGetsCopy ==
    \A h \in DOMAIN sinks :
        (~sinks[h].core.alloc /\ sinks'[h].core.alloc /\ sinks[h].parent # 0) =>
            /\ sinks'[sinks[h].parent].core.alloc
            /\ sinks'[h].core = applyDfn(api, sinks'[sinks[h].parent].core, sinks[h].dfn)
            /\ sinks[sinks[h].parent].core.alloc =>
                  sinks'[sinks[h].parent].core = sinks[sinks[h].parent].core

C14_CoreImmutable == [][C14_CoreKept /\ C14_ChildGetsCopy]_vars

\* a handle that holds a Core still holds it after a child that appends a
\* name was materialized from it and after UseOptions changed the default
C14_Witness ==
    /\ ev.c.op = "Info" /\ ev.res = "ok" /\ ev.first /\ ~ev.fresh
    /\ sinks[ev.c.h].dfn = NameDfn(sMoon)
    /\ sinks[sinks[ev.c.h].parent].core.alloc
    /\ sinks[ev.c.h].core.name # sinks[sinks[ev.c.h].parent].core.name
    /\ goptions = Humanized
    /\ ~sinks[sinks[ev.c.h].parent].core.humanize

(***************************************************************************)
(* C15: WithName(name) yields a handle whose display name is the parent's  *)
(* name followed by the configured delimiter and name, or just name when   *)
(* the parent's name is empty; WithName("") and NewNamed("") leave the     *)
(* display name unchanged, adding no delimiter.  core.appendName of the    *)
(* sink does so.  The closure of the pre-v1 Logger.WithName has no test of *)
(* the empty name: WithName("") on a named Logger appends the delimiter.   *)
(***************************************************************************)
\* the display name of the handle that h was derived or made from
NameBefore(h) == IF sinks[h].parent = 0 THEN Empty ELSE sinks[sinks[h].parent].core.name

C15_Original ==
    \A h \in DOMAIN sinks :
        (/\ sinks[h].done /\ sinks[h].core.alloc
         /\ sinks[h].dfn.k = "name"
         /\ sinks[h].parent # 0 => sinks[sinks[h].parent].core.alloc) =>
            sinks[h].core.name =
                (IF sinks[h].dfn.name = Empty THEN NameBefore(h)
                 ELSE IF NameBefore(h) = Empty THEN sinks[h].dfn.name
                 ELSE NameBefore(h) \o sinks[h].core.nameDelim \o sinks[h].dfn.name)

\* the sink: WithName("") on the handle named "moon" is materialized and is
\* named "moon"
C15_Witness ==
    /\ api = "sink"
    /\ \E h \in DOMAIN sinks :
          /\ sinks[h].done /\ sinks[h].dfn = NameDfn(Empty)
          /\ sinks[h].parent # 0
          /\ sinks[sinks[h].parent].core.name = sMoon
          /\ sinks[h].core.name = sMoon

(***************************************************************************)
(* C16: WithValues(kvs...) flattens kvs when it is called: the context     *)
(* text it contributes is that of the values at that call, and a change    *)
(* of a value (a Stringer whose rendering changes) between the WithValues  *)
(* call and the materialization of the handle does not change the text     *)
(* that is logged.  sink.WithValues only captures kvs: its closure calls   *)
(* c.flatten(kvs...) when the handle is materialized, so the text is that  *)
(* of the values at the first use.                                         *)
(***************************************************************************)
\* the context a handle made by WithValues adds to Core c, flattened with the
\* rendering text of the program's Stringer
ContextWith(c, h, text) ==
    appendValues(c, flatten(c, Deref(sinks[h].dfn.kvs, text))).values

C16_Original ==
    \A h \in DOMAIN sinks :
        (/\ sinks[h].done /\ sinks[h].core.alloc
         /\ sinks[h].dfn.k = "values"
         /\ sinks[h].parent # 0
         /\ sinks[sinks[h].parent].core.alloc) =>
            /\ sinks[h].core.values = ContextWith(sinks[sinks[h].parent].core, h, sinks[h].at)
            /\ (ev.c.op \in {"Info", "Error"} /\ ev.c.h = h /\ Len(ev.writes) = 1) =>
                  Contains(ev.writes[1].bytes,
                           SP \o ContextWith(sinks[sinks[h].parent].core, h, sinks[h].at))

\* a handle made by WithValues while the Stringer returned "you" wrote its
\* first record after the Stringer was changed
C16_Witness ==
    /\ ev.c.op = "Info" /\ ev.res = "ok" /\ ev.first
    /\ sinks[ev.c.h].dfn = ValuesDfn(RefKvs)
    /\ sinks[ev.c.h].at = sYou
    /\ stringer = sMoon
    /\ Len(ev.writes) = 1

(***************************************************************************)
(* C17: flatten reads its arguments as alternating key, value: it emits    *)
(* one key=value token per key, in input order, joined by single spaces;   *)
(* an input of odd length pairs the last key with an empty value (token    *)
(* "key=") instead of failing, and the empty input yields the empty        *)
(* string.  The text is the end of the record that Info writes.            *)
(***************************************************************************)
\* the tokens expected of kvs: one for each key
Tokens(c, kvs) ==
    [i \in 1..((Len(kvs) + 1) \div 2) |->
        key(c, stringify(kvs[2 * i - 1])) \o EQ
        \o (IF 2 * i <= Len(kvs) THEN stringify(kvs[2 * i]) ELSE Empty)]

EndsWith(s, suffix) ==
    /\ Len(suffix) <= Len(s)
    /\ SubSeq(s, Len(s) - Len(suffix) + 1, Len(s)) = suffix

OddText == sVal1 \o EQ \o <<"1">> \o SP \o sTrouble \o EQ

C17_Flatten ==
    (ev.c.op = "Info" /\ Len(ev.writes) = 1) =>
        LET c == sinks[ev.c.h].core
            text == flatten(c, ev.c.kvs)
        IN /\ text = JoinSp(Tokens(c, ev.c.kvs))
           /\ ev.c.kvs = << >> => text = Empty
           /\ ev.c.kvs = OddKvs => text = OddText
           /\ EndsWith(ev.writes[1].bytes,
                       (IF text = Empty THEN Empty ELSE SP \o text) \o NL)
           /\ ev.c.kvs = << >> =>
                 ev.writes[1].bytes = write(c, ev.c.level, sInfo, ev.c.msg, Empty, << >>)

\* a record was written for key/values of odd length: it ends with the last
\* key and an empty value
C17_Witness ==
    /\ ev.c.op = "Info" /\ ev.res = "ok" /\ ev.c.kvs = OddKvs
    /\ Len(ev.writes) = 1
    /\ EndsWith(ev.writes[1].bytes, SP \o OddText \o NL)

(***************************************************************************)
(* C18: SetVerbosity(v) stores v as the global threshold and returns the   *)
(* threshold that was in effect immediately before, for every int v: the   *)
(* next SetVerbosity returns v, and Enabled compares levels against        *)
(* exactly the value last set.  The swap is atomic and returns the         *)
(* previous gv, but gv is an int32 and SetVerbosity stores int32(v): for   *)
(* an int outside the range of int32 the threshold is another number       *)
(* than v.                                                                 *)
(***************************************************************************)
C18_Original ==
    [][ev'.c.op = "SetVerbosity" =>
          /\ ev'.old = gv
          /\ gv' = ev'.c.v /\ ev'.c.hi = 0]_vars

\* SetVerbosity(1 + 2^32) has returned: the threshold is 1
C18_Witness ==
    /\ ev.c.op = "SetVerbosity" /\ ev.res = "ok"
    /\ ev.c.v = 1 /\ ev.c.hi = 1
    /\ gv = 1
    /\ ev.old = -1

(***************************************************************************)
(* C19: when the destination's Write returns an error, Info and Error      *)
(* return normally: no error or panic reaches the caller, the write is not *)
(* retried, and the handle's Core and the global registries are left       *)
(* unchanged.                                                              *)
(***************************************************************************)
WriteFailed(e) == \E i \in 1..Len(e.writes) : e.writes[i].failed

C19_ReturnsNormally ==
    (ev.c.op \in {"Info", "Error"} /\ WriteFailed(ev)) =>
        /\ ev.res = "ok"
        /\ Len(ev.writes) = 1
        /\ thr[ev.t].pc = "idle"

C19_LeavesState ==
    WriteFailed(ev') =>
        /\ goptions' = goptions /\ goptionsmu' = goptionsmu
        /\ gv' = gv
        /\ disabledLoggers' = disabledLoggers /\ anyDisabled' = anyDisabled
        /\ \A h \in DOMAIN sinks : sinks[h].core.alloc => sinks'[h].core = sinks[h].core
        /\ ~ev'.first => sinks' = sinks
        /\ sinks'[ev'.c.h].core.w = BrokenWriter

C19_WriteErrorIgnored == []C19_ReturnsNormally /\ [][C19_LeavesState]_vars

\* an Error call on a materialized handle returned after a Write that failed
C19_Witness ==
    /\ ev.c.op = "Error" /\ ev.res = "ok" /\ ~ev.first
    /\ WriteFailed(ev)
    /\ sinks[ev.c.h].core.w = BrokenWriter

(***************************************************************************)
(* C20: each emitted record results in exactly one Write call on the       *)
(* destination, carrying one complete line: the written bytes end with a   *)
(* newline and contain no other newline, for every message and every       *)
(* key/value list.  core.write does one Write that ends with a newline,    *)
(* but quote escapes a string only when it holds a space: a message with   *)
(* a newline and no space is written as it is, on two lines.               *)
(***************************************************************************)
C20_Original ==
    /\ Len(ev.writes) <= 1
    /\ (ev.c.op \in {"Info", "Error"} /\ ev.res = "ok"
            /\ (ev.c.op = "Info" => ev.c.level <= gv)) => Len(ev.writes) = 1
    /\ \A i \in 1..Len(ev.writes) :
          LET b == ev.writes[i].bytes
          IN /\ Len(b) > 0
             /\ b[Len(b)] = "\n"
             /\ \A j \in 1..(Len(b) - 1) : b[j] # "\n"

\* the record of Info("a\nb") was written
C20_Witness ==
    /\ ev.c.op = "Info" /\ ev.res = "ok" /\ ev.c.msg = sTwoLines
    /\ Len(ev.writes) = 1
    /\ Contains(ev.writes[1].bytes, sMsgEq \o sTwoLines \o SP)

(***************************************************************************)
(* C21: an Enabled that runs while DisableLogger or EnableLogger update    *)
(* the disabled names answers as one complete map gives it, a map that     *)
(* was the published one at some moment of the call (or the one an update  *)
(* in progress at its beginning had copied): with its level within the     *)
(* threshold, true when the handle has no name or its name is not in that  *)
(* map, false when it is.  So an Enabled that began after DisableLogger(n) *)
(* returned, with no EnableLogger(n) since, is false on a handle named n,  *)
(* and one that began after EnableLogger(n) returned, with no              *)
(* DisableLogger(n) since, is not false because of n.                      *)
(***************************************************************************)
AnswerUnder(snap, h, level) ==
    IF level <= gv /\ (sinks[h].core.name = Empty \/ sinks[h].core.name \notin snap)
    THEN "true" ELSE "false"

C21_SnapshotAnswer ==
    (ev.c.op = "Enabled" /\ ev.res \in {"true", "false"}) =>
        /\ \E snap \in ev.seen : ev.res = AnswerUnder(snap, ev.c.h, ev.c.level)
        /\ (\A snap \in ev.seen : ComposedName(ev.c.h) \in snap) => ev.res = "false"
        /\ (\A snap \in ev.seen : ComposedName(ev.c.h) \notin snap) =>
               ev.res = (IF ev.c.level <= gv THEN "true" ELSE "false")

\* Enabled on the handle "europa" overlapped DisableLogger("europa"): it
\* returns true, the answer of the map before, while the map after is published
C21_Witness ==
    /\ ev.c.op = "Enabled" /\ ev.res = "true"
    /\ ComposedName(ev.c.h) = sEuropa
    /\ ev.seen = {{}, {sEuropa}}
    /\ disabledLoggers = {sEuropa}

(***************************************************************************)
(* C22 (as amended): a log call never waits for DisableLogger or           *)
(* EnableLogger, and a log call on a handle whose root is materialized     *)
(* never waits for UseOptions either.  The only step of a log call that    *)
(* waits for a registry update is goptionsmu.Lock() in the instantiate of  *)
(* a root that was still deferred when the call began: it waits while      *)
(* UseOptions holds goptionsmu.                                            *)
(***************************************************************************)
Logging(t) == thr[t].pc # "idle" /\ thr[t].c.op \in LogOps

InUpdate(t) == thr[t].pc \in {"useOptionsStore", "storeAnyDisabled"}

C22_OnlyRootWaits ==
    \A t \in Goroutines :
        (Logging(t) /\ ~CanStep(State, t) /\ \E u \in Goroutines : InUpdate(u)) =>
            /\ thr[t].pc = "rootLock"
            /\ thr[t].fresh
            /\ \E u \in Goroutines : thr[u].pc = "useOptionsStore"

\* C22 as stated: a log call can take its next step whenever another
\* goroutine is inside a registry update
C22_Original ==
    \A t \in Goroutines :
        (Logging(t) /\ \E u \in Goroutines : InUpdate(u)) => CanStep(State, t)

\* Info on a deferred handle is at goptionsmu.Lock() while UseOptions holds
\* the lock: it cannot take its step
C22_Witness ==
    \E t, u \in Goroutines :
        /\ thr[t].c.op = "Info" /\ thr[t].pc = "rootLock" /\ ~CanStep(State, t)
        /\ thr[u].c.op = "UseOptions" /\ thr[u].pc = "useOptionsStore"

(***************************************************************************)
(* C23: when the registry default has a destination and every goroutine    *)
(* that can run is run, every call of Enabled, Info and Error returns,     *)
(* also when the first calls on a handle and on its parent run             *)
(* concurrently: the sync.Once gates and goptionsmu never deadlock.        *)
(***************************************************************************)
C23_EveryCallReturns ==
    \A t \in Goroutines : (thr[t].pc # "idle") ~> (thr[t].pc = "idle")

\* the first call on the derived handle waits at the sync.Once of its parent
\* while the first call on the parent is inside that sync.Once
C23_Witness ==
    \E t, u \in Goroutines :
        /\ t # u
        /\ thr[t].c.op \in LogOps /\ thr[u].c.op \in LogOps
        /\ sinks[thr[t].c.h].parent = thr[u].c.h
        /\ Len(thr[t].stack) = 2 /\ thr[t].pc = "doSlow" /\ ~CanStep(State, t)
        /\ thr[u].pc \in {"instantiate", "rootLock", "rootApply"}

(***************************************************************************)
(* C24: when a call of Enabled, Info or Error on a handle has returned,    *)
(* the handle and every ancestor on its parent chain have run their        *)
(* sync.Once, instantiate ran once for each, and each holds the Core       *)
(* built from its own chain only (no derivation of a descendant is in      *)
(* it).  A handle whose sync.Once has run is never materialized again:     *)
(* the first use of another descendant leaves its Core and the number of   *)
(* runs of its instantiate as they are.                                    *)
(***************************************************************************)
RECURSIVE Chain(_)
Chain(h) == IF h = 0 THEN {} ELSE {h} \cup Chain(sinks[h].parent)

C24_AncestorsHoldCore ==
    Logged =>
        \A a \in Chain(ev.c.h) :
            /\ sinks[a].done
            /\ sinks[a].ninst = 1
            /\ sinks[a].core.alloc
            /\ sinks[a].core = Built(a, RootOptions(a))

C24_Memoized ==
    \A h \in DOMAIN sinks :
        sinks[h].done => /\ sinks'[h].ninst = sinks[h].ninst
                         /\ sinks'[h].core = sinks[h].core

C24_AncestorsOnce == []C24_AncestorsHoldCore /\ [][C24_Memoized]_vars

\* the first use of a derived handle whose parent was materialized before by
\* the first use of another handle derived from it
C24_Witness ==
    /\ Logged /\ ev.first /\ ~ev.fresh
    /\ sinks[ev.c.h].parent # 0
    /\ \E a \in DOMAIN sinks :
          /\ a # ev.c.h /\ sinks[a].parent = sinks[ev.c.h].parent
          /\ sinks[a].done /\ sinks[a].dfn # sinks[ev.c.h].dfn
    /\ sinks[sinks[ev.c.h].parent].ninst = 1

(***************************************************************************)
(* C25: while the registry default stays the same, the Core a handle holds *)
(* after its first use is the Core that materializing every handle right   *)
(* after its creation gives: the default applied to the root, then the     *)
(* derivations of the chain from the root to the handle, each run when its *)
(* handle was made; and the records written are the lines of that Core.    *)
(* The closures of WithValues run c.flatten(kvs...) at the first use, so   *)
(* for a value whose rendering changed since the derivation the two Cores  *)
(* differ.                                                                 *)
(***************************************************************************)
\* the Core of h had every handle been materialized when it was made
RECURSIVE Eager(_)
Eager(h) ==
    LET dfn == [sinks[h].dfn EXCEPT !.kvs = Deref(@, sinks[h].at)]
    IN IF sinks[h].parent # 0 THEN applyDfn(api, Eager(sinks[h].parent), dfn)
       ELSE IF sinks[h].ctor = "NewWithOptions" THEN sinks[h].core
       ELSE applyDfn(api,
                     applyOptions(ZeroCore(IF api = "sink" THEN sinks[h].callDepth ELSE 0),
                                  sinks[h].born[1]),
                     dfn)

\* the registry default is the one h's root was made under and applied
SameDefault(h) ==
    LET r == rootOf(sinks, h)
    IN sinks[r].ctor # "NewWithOptions" =>
          sinks[r].born = <<goptions>> /\ sinks[r].applied = <<goptions>>

C25_Original ==
    (Logged /\ SameDefault(ev.c.h)) =>
        /\ sinks[ev.c.h].core = Eager(ev.c.h)
        /\ \A i \in 1..Len(ev.writes) :
              ev.writes[i].bytes = Line(Eager(ev.c.h), ev.c)

\* under the default options a handle made by WithValues while the Stringer
\* returned "you" is first used after the Stringer was changed: it holds the
\* context of the changed value, not the one an eager materialization gives
C25_Witness ==
    /\ Logged /\ ev.first /\ SameDefault(ev.c.h)
    /\ goptions = DefaultOptions
    /\ sinks[ev.c.h].dfn = ValuesDfn(RefKvs)
    /\ sinks[ev.c.h].at = sYou /\ stringer = sMoon
    /\ sinks[ev.c.h].core # Eager(ev.c.h)

(***************************************************************************)
(* C26: when a call of Enabled or Info has returned, the handle and its    *)
(* ancestors are materialized, also when Enabled answered false or Info    *)
(* wrote nothing (level above the threshold, name disabled); a root that   *)
(* was deferred when the call began applied the registry default of that   *)
(* call.  UseOptions changes no materialized handle, and the records a     *)
(* handle writes later are the lines of the Core it holds.                 *)
(***************************************************************************)
Suppressed ==
    \/ ev.c.op = "Enabled" /\ ev.res = "false"
    \/ ev.c.op = "Info" /\ ev.res = "ok" /\ ev.writes = << >>

C26_SuppressedMaterializes ==
    (ev.c.op \in {"Enabled", "Info"} /\ Logged) =>
        /\ \A a \in Chain(ev.c.h) :
              /\ sinks[a].done /\ sinks[a].core.alloc
              /\ sinks[a].core = Built(a, RootOptions(a))
        /\ (ev.fresh /\ Deferrable(ev.c.h)) => RootOptions(ev.c.h) = goptions
        /\ WroteWith(sinks[ev.c.h].core)

C26_UseOptionsKeepsHandles ==
    ev'.c.op = "UseOptions" =>
        \A h \in DOMAIN sinks :
            sinks[h].done => sinks'[h].core = sinks[h].core /\ sinks'[h].applied = sinks[h].applied

C26_FrozenBySuppressedCall ==
    []C26_SuppressedMaterializes /\ [][C26_UseOptionsKeepsHandles]_vars

\* the first call on a derived handle whose root was deferred wrote nothing,
\* and the handle is materialized
C26_Witness ==
    /\ Suppressed /\ ev.c.op = "Info" /\ ev.first /\ ev.fresh
    /\ sinks[ev.c.h].parent # 0
    /\ sinks[ev.c.h].done /\ sinks[sinks[ev.c.h].parent].done

(***************************************************************************)
(* C27: in every Core colorize implies humanize.  A Core made from Options *)
(* has humanize as given and colorize exactly when Colorize and Humanize   *)
(* are both set, so Colorize without Humanize gives colorize false; a      *)
(* derived handle holds the two flags of its parent.                       *)
(***************************************************************************)
FlagsOf(c, opts) ==
    /\ c.humanize = opts.Humanize
    /\ c.colorize = (opts.Colorize /\ opts.Humanize)

C27_ColorizeNeedsHumanize ==
    /\ \A h \in DOMAIN sinks :
          sinks[h].core.alloc =>
             /\ sinks[h].core.colorize => sinks[h].core.humanize
             /\ (sinks[h].parent = 0 /\ sinks[h].done /\ Deferrable(h)) =>
                    FlagsOf(sinks[h].core, RootOptions(h))
             /\ (sinks[h].parent # 0 /\ sinks[sinks[h].parent].core.alloc) =>
                    /\ sinks[h].core.humanize = sinks[sinks[h].parent].core.humanize
                    /\ sinks[h].core.colorize = sinks[sinks[h].parent].core.colorize
    /\ (ev.c.op = "NewWithOptions" /\ ev.res = "ok") =>
          FlagsOf(sinks[ev.new].core, ev.c.opts)

\* a derived handle whose root applied Options with Colorize and without
\* Humanize has logged: its Core has colorize false
C27_Witness ==
    /\ Logged /\ Len(ev.writes) = 1
    /\ sinks[ev.c.h].parent # 0
    /\ RootOptions(ev.c.h) = ColorOnly
    /\ ~sinks[ev.c.h].core.colorize /\ ~sinks[ev.c.h].core.humanize

(***************************************************************************)
(* C28: whenever no call of DisableLogger or EnableLogger is in progress,  *)
(* anyDisabled is 1 exactly when the published map of disabled names is    *)
(* not empty.  The published map changes only in the Store of an update,   *)
(* in one step from the complete map before to a complete new one: the map *)
(* before without the name of the call, with that name when the call is    *)
(* DisableLogger.  So it holds the names that were disabled and not        *)
(* enabled since, and no reader sees a map that is being changed.          *)
(***************************************************************************)
Updating(t) == thr[t].pc # "idle" /\ thr[t].c.op \in {"DisableLogger", "EnableLogger"}

C28_FlagTellsNonEmpty ==
    (\A t \in Goroutines : ~Updating(t)) => (anyDisabled = 1 <=> disabledLoggers # {})

Stores(t) == thr[t].pc = "setLoggerDisabledStatus" /\ thr'[t].pc = "storeAnyDisabled"

C28_FreshCopy ==
    /\ disabledLoggers' # disabledLoggers => \E t \in Goroutines : Stores(t)
    /\ \A t \in Goroutines :
          Stores(t) =>
             disabledLoggers' =
                 (disabledLoggers \ {thr[t].c.name})
                     \cup (IF thr[t].c.op = "DisableLogger" THEN {thr[t].c.name} ELSE {})

C28_FlagAndSet ==
    /\ []C28_FlagTellsNonEmpty
    /\ [](anyDisabled \in {0, 1})
    /\ [][C28_FreshCopy]_vars

\* EnableLogger("europa") returned while "moon" stays disabled and no update
\* is in progress: the flag is still 1
C28_Witness ==
    /\ \A t \in Goroutines : ~Updating(t)
    /\ ev.c.op = "EnableLogger" /\ ev.c.name = sEuropa
    /\ ev.was = {sEuropa, sMoon}
    /\ disabledLoggers = {sMoon} /\ anyDisabled = 1

(***************************************************************************)
(* C29: when the first use of a deferred root panics because the registry  *)
(* default has a nil Writer, goptionsmu is unlocked when the panic leaves  *)
(* the call, and no later call waits for goptionsmu for ever: a UseOptions *)
(* and the first use of another root get the lock.  sink.instantiate       *)
(* unlocks goptionsmu after applyOptions without defer, so the panic of    *)
(* applyOptions leaves it locked.                                          *)
(***************************************************************************)
\* goroutine t waits in goptionsmu.Lock() and no goroutine is in a section
\* that unlocks it
Stuck(t) ==
    /\ thr[t].pc \in {"rootLock", "useOptionsLock"}
    /\ goptionsmu
    /\ \A u \in Goroutines : thr[u].pc \notin {"rootApply", "useOptionsStore"}

C29_Original ==
    /\ (ev.c.op \in LogOps /\ ev.res = "panic" /\ ev.fresh /\ Deferrable(ev.c.h)) =>
          ~goptionsmu
    /\ \A t \in Goroutines : ~Stuck(t)

\* the first use of a deferred root panicked under a registry default without
\* a Writer, and goptionsmu is locked although no call is in progress
C29_Witness ==
    /\ ev.c.op \in LogOps /\ ev.res = "panic" /\ ev.fresh
    /\ sinks[ev.c.h].parent = 0 /\ Deferrable(ev.c.h)
    /\ goptions = NoWriter
    /\ goptionsmu
    /\ \A t \in Goroutines : thr[t].pc = "idle"

(***************************************************************************)
(* C30: every Core that a handle holds has a destination, also after a     *)
(* materialization that panicked on the nil Writer of the registry         *)
(* default, and no record is written through a Core without one.           *)
(* sink.instantiate stores l.core = &core{...} before applyOptions, and    *)
(* the sync.Once is done after the panic: the handle keeps the Core        *)
(* without a destination, and its later calls dereference the nil Writer.  *)
(***************************************************************************)
C30_Original ==
    /\ \A h \in DOMAIN sinks :
          (sinks[h].core.alloc /\ \A t \in Goroutines : thr[t].pc = "idle") =>
              sinks[h].core.w # NilWriter
    /\ (ev.c.op \in {"Info", "Error"} /\ ~ev.first /\ ev.res # "none"
            /\ sinks[ev.c.h].core.alloc) =>
          ev.res = "ok"

\* a root whose first use panicked holds a Core without a destination, and a
\* later Error on it has panicked as well
C30_Witness ==
    /\ ev.c.op = "Error" /\ ev.res = "panic" /\ ~ev.first
    /\ sinks[ev.c.h].parent = 0 /\ sinks[ev.c.h].done
    /\ sinks[ev.c.h].core.alloc /\ sinks[ev.c.h].core.w = NilWriter

(***************************************************************************)
(* C31: a handle whose display name is empty is never disabled by name:    *)
(* whatever the disabled names are, the empty name among them after        *)
(* DisableLogger(""), its Enabled is true exactly when the level is at     *)
(* most the global verbosity threshold.                                    *)
(***************************************************************************)
C31_UnnamedNeverDisabled ==
    (ev.c.op = "Enabled" /\ Logged /\ sinks[ev.c.h].core.name = Empty) =>
        /\ ComposedName(ev.c.h) = Empty
        /\ ev.res = (IF CallLevel <= gv THEN "true" ELSE "false")

\* after DisableLogger("") the empty name is in the published map and the
\* flag is 1: Enabled on a handle without a name is true
C31_Witness ==
    /\ api = "sink" /\ ev.c.op = "Enabled" /\ ev.res = "true"
    /\ sinks[ev.c.h].core.name = Empty
    /\ Empty \in disabledLoggers /\ anyDisabled = 1

(***************************************************************************)
(* C32: the call depth that logr passes to sink.Init is in the Core of     *)
(* every logger, made by New or by NewWithOptions, and the caller of a     *)
(* record is resolved with it.  NewWithOptions builds the Core in          *)
(* s.applyOptions(opts), before logr.New(s) calls Init: Init sets the      *)
(* runtimeInfo of the sink only, the Core keeps call depth 0 and resolves  *)
(* the caller one frame nearer than the Core of a logger made by New.      *)
(***************************************************************************)
\* the call depth logr gave to the root of h's chain in Init
InitDepth(h) == sinks[rootOf(sinks, h)].callDepth

C32_Original ==
    /\ \A h \in DOMAIN sinks :
          sinks[h].core.alloc => sinks[h].core.callDepth = InitDepth(h)
    /\ (ev.c.op \in {"Info", "Error"} /\ Len(ev.writes) = 1
            /\ sinks[ev.c.h].core.addCaller) =>
          Contains(ev.writes[1].bytes,
                   SP \o sCallerEq
                      \o caller("sink",
                                [sinks[ev.c.h].core EXCEPT !.callDepth = InitDepth(ev.c.h)], 1)
                      \o SP)

\* a logger made by NewWithOptions with AddCaller wrote a record: its Core
\* has call depth 0 although Init was given 1, and the caller is the frame of
\* sink.Info
C32_Witness ==
    /\ ev.c.op = "Info" /\ Len(ev.writes) = 1
    /\ sinks[rootOf(sinks, ev.c.h)].ctor = "NewWithOptions"
    /\ sinks[ev.c.h].core.addCaller /\ sinks[ev.c.h].core.callerSkip = 0
    /\ InitDepth(ev.c.h) = 1 /\ sinks[ev.c.h].core.callDepth = 0
    /\ Contains(ev.writes[1].bytes, SP \o sCallerEq \o fSink \o SP)
====
